---- MODULE Spec2Model ----
(***************************************************************************)
(* Model of the orchestration core of the design-review application:      *)
(*   - the bounded-concurrency dispatcher (runWithConcurrency,            *)
(*     runMultiScreenAudit, auditOneScreen) of the useAuditDesign hook    *)
(*     and the results page that drives it (handleFigmaStart,             *)
(*     handleRestart),                                                     *)
(*   - the HTTP retry client fetchWithRetry of fetch-figma-frames,        *)
(*   - the frame extractor extractFrames of fetch-figma-frames.           *)
(*                                                                         *)
(* JavaScript runs one continuation at a time: each action below is one   *)
(* run of synchronous code between two suspension points (await).         *)
(***************************************************************************)
EXTENDS Integers, Sequences, FiniteSets, TLC

(* ----------------------------- bounds ---------------------------------- *)
\* largest frame list handed to the dispatcher under SpecDispatch / SpecSettle
MaxFrames == 5
\* largest frame list handed to the dispatcher under SpecLive
MaxLiveFrames == 4
\* largest worker count tried under SpecDispatch / SpecLive
MaxConc == 3
\* number of frames the page hands to the dispatcher under Spec, all its
\* multi-screen runs taken together
MaxPageFrames == 4

\* largest maxRetries argument given to fetchWithRetry under SpecRetry
MaxRetryArg == 4
\* largest number of nodes of a generated file tree under SpecExtract
MaxNodes == 4

\* largest number of pages of a design file under SpecPipeline
MaxPages == 3
\* largest number of children of a page of a design file under SpecPipeline
MaxPageChildren == 7
\* largest number of units of the texts enumerated in full under SpecSanitize
MaxTextLen == 3

(* ------------------------- program constants --------------------------- *)
\* const CONCURRENCY = 3
CONCURRENCY == 3

VARIABLES
  \* ---- page state (Index component, useState) ----
  step,              \* 'persona' | 'config' | 'results'
  selectedPersona,   \* "null" or a persona id
  isMultiScreen,
  figmaFrames,       \* sequence of frames; a frame is <<run, index>>
  screenResults,     \* array of ScreenAuditResult slots (Hole = empty array slot)
  completedScreens,
  \* ---- useAuditDesign hook state ----
  isLoading,
  error,
  \* ---- dispatcher ----
  concurrency,       \* the concurrency argument of runWithConcurrency
  numRuns,           \* number of runMultiScreenAudit calls made so far
  runs,              \* per call: the closure state of runWithConcurrency, with
                     \* the history of claims, writes, answers and of the
                     \* onScreenComplete invocations made for each index
  hung,              \* requests <<run, index>> that never settle
  \* ---- fetchWithRetry (one call) ----
  fwVariant,         \* which fetchWithRetry of the repository is running
  fwUrl, fwHeaders, fwMaxRetries,   \* its arguments
  fwPc,              \* idle | fetch | delay | postLoopFetch | returned | threw
  fwAttempt,         \* the loop variable attempt
  fwRequests,        \* the requests issued, in order
  fwResponses,       \* the statuses received, in order
  fwWaits,           \* the delays slept, in order (ms)
  fwResult,          \* status of the returned response (0: none)
  upstream,          \* the calls of fetchWithRetry made and the requests they
                     \* sent to the provider, per url
  \* ---- extractFrames (one call) ----
  tree,              \* the node tree: path of child positions -> node type
  exPc,              \* input | done
  extracted,         \* the array extractFrames returned (node ids = paths)
  \* ---- useFigmaFrames hook (one call of fetchFrames) ----
  ffPc,              \* idle | invoking | done
  ffUrl,             \* the figmaUrl argument of fetchFrames
  figmaLoading,      \* useFigmaFrames: isLoading
  figmaError,        \* useFigmaFrames: error
  hookFrames,        \* useFigmaFrames: frames
  \* ---- fetch-figma-frames handler (one request) ----
  hVariant,          \* which handler of the repository serves the request
  plPc,              \* idle | fileFetch | exportDelay | singleShot | batchDelay |
                     \* batch | itemDelay | item | responded
  allFrames,         \* the frames extracted from all pages (ids = paths)
  framesToExport,    \* allFrames.slice(0, cap)
  allImages,         \* Record<string, string>: id -> image URL or "null"
  loopI,             \* the loop variable i of the batch loop, resp. the
                     \* position of the sequential loop in framesToExport
  exportRequests,    \* the id lists of the image-export requests, in order
  lastAnswer,        \* history: the answer to the latest upstream call
  resolved,          \* history: ids for which an ok export answer held a URL
  exportLimited,     \* history: an export call came back 429 after retries
  inFlight,          \* upstream calls awaited: 0 the file-tree call, n the n-th export call
  response,          \* the Response returned to the caller
  \* the response sanitizer applied to one text
  rawText,           \* the text handed to tryParseJSON
  sanPc,             \* "input", "parsed", "reparsed"
  sanResult,         \* what tryParseJSON(content) returned
  serialized,        \* JSON.stringify of the returned value
  sanResult2,        \* what tryParseJSON(serialized) returned
  \* the audit-design handler serving one request
  auPc,              \* "idle", "imageCheck", "gateway", "responded"
  auBody,            \* the request body
  auKey,             \* LOVABLE_API_KEY is configured
  auRequests,        \* history: the network requests the handler issued
  auAnswer,          \* history: the answer of the model gateway
  auSanitized,       \* history: tryParseJSON was run on the content
  auResponse,        \* the Response returned to the caller
  \* useAuditDesign.runAudit
  raPc,              \* "idle", "invoking", "done"
  raLoading, raError, raResult,
  raReturn           \* what the promise of runAudit resolved to

uiVars   == <<step, selectedPersona, isMultiScreen, figmaFrames, screenResults, completedScreens>>
hookVars == <<isLoading, error>>
dispVars == <<concurrency, numRuns, runs, hung>>

pageVars == <<uiVars, hookVars, dispVars>>
retryVars == <<fwVariant, fwUrl, fwHeaders, fwMaxRetries, fwPc, fwAttempt,
               fwRequests, fwResponses, fwWaits, fwResult, upstream>>
extractVars == <<tree, exPc, extracted>>

figmaHookVars == <<ffPc, ffUrl, figmaLoading, figmaError, hookFrames>>
handlerVars == <<hVariant, plPc, allFrames, framesToExport, allImages, loopI,
                 exportRequests, lastAnswer, resolved, exportLimited, inFlight,
                 response>>
pipeVars == <<figmaHookVars, handlerVars>>
sanVars == <<rawText, sanPc, sanResult, serialized, sanResult2>>
auditVars == <<auPc, auBody, auKey, auRequests, auAnswer, auSanitized, auResponse>>
auditHookVars == <<raPc, raLoading, raError, raResult, raReturn>>
aiVars == <<sanVars, auditVars, auditHookVars>>

vars == <<pageVars, retryVars, extractVars, pipeVars, aiVars>>

(* ------------------------------ helpers -------------------------------- *)
Min(a, b) == IF a <= b THEN a ELSE b

RunIds == 1..MaxPageFrames

\* an array slot that was never assigned (a hole of a sparse JS array)
Hole == [screenName |-> <<0, 0>>, result |-> "hole", isLoading |-> FALSE, error |-> "undefined"]

\* next[index] = value on a copy of prev (0-based index; the array grows
\* with holes when index is beyond its length)
ArrayWrite(prev, index, value) ==
  [k \in 1..(IF index + 1 > Len(prev) THEN index + 1 ELSE Len(prev)) |->
     IF k = index + 1 THEN value
     ELSE IF k <= Len(prev) THEN prev[k] ELSE Hole]

(* --------------------------- the dispatcher ---------------------------- *)
\* the possible answers of supabase.functions.invoke("audit-design")
Outcomes == {"ok", "errorPayload", "fnError", "thrown"}

\* a call of runMultiScreenAudit that has not been made yet
NoRun ==
  [n |-> 0, nextIndex |-> 0, workers |-> <<>>, task |-> <<>>, outcome |-> <<>>,
   results |-> <<>>, claimLog |-> <<>>, writeLog |-> {}, calls |-> <<>>,
   status |-> "none"]

\* mutant: one worker per task (Promise.all over every task)
NumWorkers_PerTask(n, c) == n

\* mutant: a single worker whatever the concurrency
NumWorkers_Single(n, c) == Min(1, n)

\* Math.min(concurrency, tasks.length): the length of the workers array
NumWorkers(n, c) == Min(c, n)

\* mutant: the loop guard admits the index one past the last task
LoopGuard_Inclusive(run) == run.nextIndex <= run.n

\* while (nextIndex < tasks.length)
LoopGuard(run) == run.nextIndex < run.n

\* mutant: the index is read from the shared counter after the await
ResultIndex_Shared(run, w) == run.nextIndex - 1

\* results[index] = await ...: the index the resumed worker writes
ResultIndex(run, w) == run.workers[w].index

\* worker(): the loop of worker w from its head up to the next await.
\* Claiming an index and starting its task (which sends the request) are
\* one synchronous step.
WorkerLoop(run, w) ==
  IF LoopGuard(run)
  THEN LET index == run.nextIndex IN
       IF index \in DOMAIN run.task
       THEN [run EXCEPT !.nextIndex = index + 1,
                        !.workers[w] = [pc |-> "await", index |-> index],
                        !.task[index] = "pending",
                        !.claimLog = Append(@, [worker |-> w, index |-> index])]
       ELSE \* tasks[index] is undefined: the call throws a TypeError
            [run EXCEPT !.nextIndex = index + 1,
                        !.workers[w] = [pc |-> "rejected", index |-> index],
                        !.claimLog = Append(@, [worker |-> w, index |-> index])]
  ELSE [run EXCEPT !.workers[w] = [pc |-> "done", index |-> run.workers[w].index]]

\* Array.from({length}, () => worker()): the workers are called one after
\* the other, each running synchronously up to its first await
RECURSIVE SpawnWorkers(_, _)
SpawnWorkers(run, k) ==
  IF k = 0 THEN run ELSE WorkerLoop(SpawnWorkers(run, k - 1), k)

\* runWithConcurrency(tasks, concurrency) up to `await Promise.all(workers)`
runWithConcurrency(n, c) ==
  LET fresh == [n |-> n, nextIndex |-> 0,
                workers |-> [w \in 1..NumWorkers(n, c) |-> [pc |-> "new", index |-> -1]],
                task |-> [i \in 0..(n - 1) |-> "unstarted"],
                outcome |-> [i \in 0..(n - 1) |-> "none"],
                results |-> [i \in 0..(n - 1) |-> "empty"],
                claimLog |-> <<>>, writeLog |-> {},
                calls |-> [i \in 0..(n - 1) |-> <<>>],
                status |-> "running"]
  IN SpawnWorkers(fresh, NumWorkers(n, c))

\* the message of the Error caught in auditOneScreen (fnError.message ||
\* "Audit failed", data.error, or the message of the thrown exception);
\* the text is opaque to the dispatcher
ErrorMessage(outcome) == "message"

\* mutant: the task reports nothing itself, its result is held back for the
\* caller to report in input order
auditOneScreen_HeldBack(frame, index, outcome) ==
  [calls |-> <<>>, settle |-> "fulfilled"]

\* mutant: the catch block logs the error and reports nothing
auditOneScreen_Silent(frame, index, outcome) ==
  IF outcome = "ok"
  THEN [calls |-> << [index |-> index, screenName |-> frame,
                      result |-> "audit", error |-> "undefined"] >>,
        settle |-> "fulfilled"]
  ELSE [calls |-> <<>>, settle |-> "fulfilled"]

\* mutant: the catch block reports the error and throws it again
auditOneScreen_Rethrow(frame, index, outcome) ==
  IF outcome = "ok"
  THEN [calls |-> << [index |-> index, screenName |-> frame,
                      result |-> "audit", error |-> "undefined"] >>,
        settle |-> "fulfilled"]
  ELSE [calls |-> << [index |-> index, screenName |-> frame,
                      result |-> "null", error |-> ErrorMessage(outcome)] >>,
        settle |-> "rejected"]

\* auditOneScreen(frame, index)() after its request has answered: the
\* onScreenComplete invocations it makes and how its promise settles
auditOneScreen(frame, index, outcome) ==
  IF outcome = "ok"
  THEN [calls |-> << [index |-> index, screenName |-> frame,
                      result |-> "audit", error |-> "undefined"] >>,
        settle |-> "fulfilled"]
  ELSE [calls |-> << [index |-> index, screenName |-> frame,
                      result |-> "null", error |-> ErrorMessage(outcome)] >>,
        settle |-> "fulfilled"]

\* auditOneScreen(frame, index)() with a caller-supplied onScreenComplete
\* whose first invocation throws. On the success path the invocation sits
\* inside the try, so the throw is caught and the catch invokes the
\* callback again with the error result; a throw inside the catch (secondThrows
\* on the success path, the only invocation on the failure path) rejects
\* the task. `returned` are the invocations that ran to their end.
auditOneScreenCb(frame, index, outcome, secondThrows) ==
  LET success == [index |-> index, screenName |-> frame,
                  result |-> "audit", error |-> "undefined"]
      failure == [index |-> index, screenName |-> frame,
                  result |-> "null", error |-> ErrorMessage(outcome)]
  IN IF outcome = "ok"
     THEN [calls |-> << success, failure >>,
           returned |-> IF secondThrows THEN <<>> ELSE << failure >>,
           settle |-> IF secondThrows THEN "rejected" ELSE "fulfilled"]
     ELSE [calls |-> << failure >>, returned |-> <<>>, settle |-> "rejected"]

\* the callback handleFigmaStart passes as onScreenComplete:
\* next[index] = { ...screenResult, isLoading: false }
SlotOf(screenResult) ==
  [screenName |-> screenResult.screenName, result |-> screenResult.result,
   isLoading |-> FALSE, error |-> screenResult.error]

RECURSIVE ApplyCallbacks(_, _)
ApplyCallbacks(prev, calls) ==
  IF calls = <<>> THEN prev
  ELSE ApplyCallbacks(ArrayWrite(prev, Head(calls).index, SlotOf(Head(calls))), Tail(calls))

(* ------------------------------ actions -------------------------------- *)
\* handlePersonaSelect
handlePersonaSelect ==
  /\ step = "persona"
  /\ selectedPersona' = "persona"
  /\ step' = "config"
  /\ UNCHANGED <<isMultiScreen, figmaFrames, screenResults, completedScreens>>
  /\ UNCHANGED <<hookVars, dispVars, retryVars, extractVars, pipeVars, aiVars>>

\* handleBack
handleBack ==
  /\ step = "config"
  /\ step' = "persona"
  /\ selectedPersona' = "null"
  /\ UNCHANGED <<isMultiScreen, figmaFrames, screenResults, completedScreens>>
  /\ UNCHANGED <<hookVars, dispVars, retryVars, extractVars, pipeVars, aiVars>>

\* handleFigmaStart(cfg, frames) with frames.length = n, up to the await of
\* runMultiScreenAudit, which itself runs synchronously up to Promise.all
handleFigmaStart(n) ==
  /\ step = "config"
  /\ selectedPersona # "null"
  /\ LET r == numRuns + 1
         frames == [k \in 1..n |-> <<r, k - 1>>]
     IN /\ isMultiScreen' = TRUE
        /\ figmaFrames' = frames
        /\ screenResults' = [k \in 1..n |->
              [screenName |-> frames[k], result |-> "null",
               isLoading |-> TRUE, error |-> "undefined"]]
        /\ completedScreens' = 0
        /\ step' = "results"
        /\ isLoading' = TRUE
        /\ error' = "null"
        /\ numRuns' = r
        /\ runs' = [runs EXCEPT ![r] = runWithConcurrency(n, concurrency)]
  /\ UNCHANGED <<selectedPersona, concurrency, hung, retryVars, extractVars, pipeVars, aiVars>>

\* handleRestart ("New Audit")
handleRestart ==
  /\ step = "results"
  /\ step' = "persona"
  /\ selectedPersona' = "null"
  /\ isMultiScreen' = FALSE
  /\ figmaFrames' = <<>>
  /\ screenResults' = <<>>
  /\ completedScreens' = 0
  /\ UNCHANGED <<hookVars, dispVars, retryVars, extractVars, pipeVars, aiVars>>

\* the invocations of onScreenComplete, recorded under the index passed
RECURSIVE RecordCalls(_, _)
RecordCalls(calls, new) ==
  IF new = <<>> THEN calls
  ELSE RecordCalls([calls EXCEPT ![Head(new).index] = Append(@, Head(new))], Tail(new))

\* the rest of auditOneScreen(frame, i)() once its request has answered
SettleTask(run, frame, i, outcome) ==
  LET a == auditOneScreen(frame, i, outcome) IN
  [run EXCEPT !.task[i] = a.settle,
              !.outcome[i] = IF outcome = "ok" THEN "ok" ELSE "failed",
              !.calls = RecordCalls(@, a.calls)]

\* the continuation of worker w after `await tasks[index]()`: it stores the
\* value and goes round its loop, or is rejected with the task's exception
ResumeWorker(run, w) ==
  LET index == run.workers[w].index IN
  IF run.task[index] = "fulfilled"
  THEN WorkerLoop([run EXCEPT !.results[ResultIndex(run, w)] = "undefined",
                              !.writeLog = @ \cup {<<w, ResultIndex(run, w)>>},
                              !.task[index] = "consumed"], w)
  ELSE [run EXCEPT !.workers[w].pc = "rejected", !.task[index] = "consumed"]

\* mutant: the run continues as soon as one worker has returned
\* (Promise.race in place of Promise.all)
PromiseAll_Race(run) ==
  IF \E w \in DOMAIN run.workers : run.workers[w].pc = "rejected" THEN "rejected"
  ELSE IF run.workers = <<>> \/ \E w \in DOMAIN run.workers : run.workers[w].pc = "done"
  THEN "resolved"
  ELSE "pending"

\* how Promise.all(workers) stands: it rejects with the first rejected
\* worker and resolves when every worker has returned
PromiseAll(run) ==
  IF \E w \in DOMAIN run.workers : run.workers[w].pc = "rejected" THEN "rejected"
  ELSE IF \A w \in DOMAIN run.workers : run.workers[w].pc = "done" THEN "resolved"
  ELSE "pending"

\* the request of task i of run r answers: the rest of auditOneScreen runs,
\* including the callback(s), and the task's promise settles
Settle(r, i, outcome) ==
  /\ r \in 1..numRuns
  /\ i \in DOMAIN runs[r].task
  /\ runs[r].task[i] = "pending"
  /\ <<r, i>> \notin hung
  /\ LET a == auditOneScreen(<<r, i>>, i, outcome) IN
     /\ runs' = [runs EXCEPT ![r] = SettleTask(runs[r], <<r, i>>, i, outcome)]
     /\ screenResults' = ApplyCallbacks(screenResults, a.calls)
     /\ completedScreens' = completedScreens + Len(a.calls)
  /\ UNCHANGED <<step, selectedPersona, isMultiScreen, figmaFrames>>
  /\ UNCHANGED <<hookVars, concurrency, numRuns, hung, retryVars, extractVars, pipeVars, aiVars>>

\* the request of task i of run r answers and the first invocation of
\* onScreenComplete throws; an invocation that throws has changed nothing
\* of the page
SettleCb(r, i, outcome, secondThrows) ==
  /\ r \in 1..numRuns
  /\ i \in DOMAIN runs[r].task
  /\ runs[r].task[i] = "pending"
  /\ <<r, i>> \notin hung
  /\ LET a == auditOneScreenCb(<<r, i>>, i, outcome, secondThrows) IN
     /\ runs' = [runs EXCEPT ![r].task[i] = a.settle,
                             ![r].outcome[i] = IF outcome = "ok" THEN "ok" ELSE "failed",
                             ![r].calls = RecordCalls(@, a.calls)]
     /\ screenResults' = ApplyCallbacks(screenResults, a.returned)
     /\ completedScreens' = completedScreens + Len(a.returned)
  /\ UNCHANGED <<step, selectedPersona, isMultiScreen, figmaFrames>>
  /\ UNCHANGED <<hookVars, concurrency, numRuns, hung, retryVars, extractVars, pipeVars, aiVars>>

\* worker w of run r resumes after its await
Resume(r, w) ==
  /\ r \in 1..numRuns
  /\ w \in DOMAIN runs[r].workers
  /\ runs[r].workers[w].pc = "await"
  /\ runs[r].task[runs[r].workers[w].index] \in {"fulfilled", "rejected"}
  /\ runs' = [runs EXCEPT ![r] = ResumeWorker(runs[r], w)]
  /\ UNCHANGED <<uiVars, hookVars, concurrency, numRuns, hung, retryVars, extractVars, pipeVars, aiVars>>

\* Promise.all(workers) settles and runMultiScreenAudit continues:
\* setIsLoading(false) when it resolved, nothing when it rejected
Finish(r) ==
  /\ r \in 1..numRuns
  /\ runs[r].status = "running"
  /\ PromiseAll(runs[r]) # "pending"
  /\ runs' = [runs EXCEPT ![r].status = PromiseAll(runs[r])]
  /\ isLoading' = IF PromiseAll(runs[r]) = "resolved" THEN FALSE ELSE isLoading
  /\ UNCHANGED <<uiVars, error, concurrency, numRuns, hung, retryVars, extractVars, pipeVars, aiVars>>

\* One event-loop task of the page: the answer to the request of task i of
\* run r arrives and every continuation it makes ready runs before the next
\* event (auditOneScreen with its callback, then the worker, then, when the
\* last worker has returned, the rest of runMultiScreenAudit).
AuditResponse(r, i, outcome) ==
  /\ r \in 1..numRuns
  /\ i \in DOMAIN runs[r].task
  /\ runs[r].task[i] = "pending"
  /\ <<r, i>> \notin hung
  /\ LET a == auditOneScreen(<<r, i>>, i, outcome)
         settled == SettleTask(runs[r], <<r, i>>, i, outcome)
         w == CHOOSE x \in DOMAIN settled.workers :
                settled.workers[x].pc = "await" /\ settled.workers[x].index = i
         resumed == ResumeWorker(settled, w)
         after == IF PromiseAll(resumed) = "pending" THEN resumed
                  ELSE [resumed EXCEPT !.status = PromiseAll(resumed)]
     IN /\ runs' = [runs EXCEPT ![r] = after]
        /\ screenResults' = ApplyCallbacks(screenResults, a.calls)
        /\ completedScreens' = completedScreens + Len(a.calls)
        /\ isLoading' = IF after.status = "resolved" THEN FALSE ELSE isLoading
  /\ UNCHANGED <<step, selectedPersona, isMultiScreen, figmaFrames>>
  /\ UNCHANGED <<error, concurrency, numRuns, hung, retryVars, extractVars, pipeVars, aiVars>>

\* a request that never answers
Hang(r, i) ==
  /\ r \in 1..numRuns
  /\ i \in DOMAIN runs[r].task
  /\ runs[r].task[i] = "pending"
  /\ hung = {}
  /\ hung' = {<<r, i>>}
  /\ UNCHANGED <<uiVars, hookVars, concurrency, numRuns, runs, retryVars, extractVars, pipeVars, aiVars>>

(* =========================== fetchWithRetry ============================ *)
\* the fetchWithRetry of the deployed handler (2s, 4s, 8s) and that of the
\* single-shot variant (3s, 6s, 12s, 24s)
Variants == {"exp2s", "exp3s"}

\* the file-tree request and the image-export request of the handler
Urls == {"files", "images"}

\* statuses the design-file provider answers with
Statuses == {200, 403, 429, 500}

\* mutant: every error status is retried
RetryStatus_AnyError(status) == status >= 400

\* if (response.status === 429)
RetryStatus(status) == status = 429

\* mutant: off by one, the final attempt waits and goes round again
AttemptsRemain_OffByOne(attempt, maxRetries) == attempt <= maxRetries

\* if (attempt < maxRetries)
AttemptsRemain(attempt, maxRetries) == attempt < maxRetries

\* mutant: the exponent is the attempt itself (1s, 2s, 4s)
waitMs_FromAttempt(variant, attempt) ==
  IF variant = "exp2s" THEN (2 ^ attempt) * 1000 ELSE (2 ^ attempt) * 3000

\* Math.pow(2, attempt + 1) * 1000, resp. Math.pow(2, attempt) * 3000
waitMs(variant, attempt) ==
  IF variant = "exp2s" THEN (2 ^ (attempt + 1)) * 1000 ELSE (2 ^ attempt) * 3000

\* the fetchWithRetry of the sequential variant (part_000, first file):
\* retries = 3, the wait is taken from the Retry-After header
AllVariants == Variants \cup {"retryAfter"}

\* response.headers.get("Retry-After"): absent, a number of seconds, or an
\* HTTP date
RetryAfterHeaders == {"null", "2", "date"}

\* the NaN that parseInt gives for a header that does not start with digits
NaN == -1

\* parseInt(retryAfter, 10)
parseInt(text) == IF text = "2" THEN 2 ELSE NaN

\* retryAfter ? parseInt(retryAfter, 10) * 1000 : 1000 * (attempt + 1)
retryAfterMs(retryAfter, attempt) ==
  IF retryAfter # "null"
  THEN (IF parseInt(retryAfter) = NaN THEN NaN ELSE parseInt(retryAfter) * 1000)
  ELSE 1000 * (attempt + 1)

\* mutant: the loop of the Retry-After variant runs once more
LoopCondition_Inclusive(variant, attempt, maxRetries) == attempt <= maxRetries

\* the condition of the for loop: attempt <= maxRetries, resp.
\* attempt < retries in the Retry-After variant
LoopCondition(variant, attempt, maxRetries) ==
  IF variant = "retryAfter" THEN attempt < maxRetries ELSE attempt <= maxRetries

\* the test made on a 429 inside the loop: if (attempt < maxRetries); the
\* Retry-After variant makes none
RetryAgain(variant, attempt, maxRetries) ==
  variant = "retryAfter" \/ AttemptsRemain(attempt, maxRetries)

\* nothing has been sent to the provider
NoUpstream == [files |-> 0, images |-> 0, calls |-> 0]

\* one more request for url has gone out
Sent(up, url) == [up EXCEPT ![url] = @ + 1]

\* fetch(url, { headers })
FetchRequest(url, headers) == [url |-> url, headers |-> headers]

\* fetchWithRetry(url, headers, maxRetries) up to its first await: the
\* first request goes out, inside the loop when the loop is entered
fetchWithRetry(variant, url, maxRetries) ==
  /\ fwPc = "idle"
  /\ fwVariant' = variant
  /\ fwUrl' = url
  /\ fwHeaders' = "figmaHeaders"
  /\ fwMaxRetries' = maxRetries
  /\ fwAttempt' = 0
  /\ fwRequests' = << FetchRequest(url, "figmaHeaders") >>
  /\ fwPc' = IF LoopCondition(variant, 0, maxRetries) THEN "fetch" ELSE "postLoopFetch"
  /\ upstream' = Sent([upstream EXCEPT !.calls = @ + 1], url)
  /\ UNCHANGED <<fwResponses, fwWaits, fwResult>>
  /\ UNCHANGED <<pageVars, extractVars, pipeVars, aiVars>>

\* the awaited fetch answers with a status and a Retry-After header
FetchRespondsWith(status, retryAfter) ==
  /\ fwPc \in {"fetch", "postLoopFetch"}
  /\ fwResponses' = Append(fwResponses, status)
  /\ IF fwPc = "fetch" /\ RetryStatus(status) /\ RetryAgain(fwVariant, fwAttempt, fwMaxRetries)
     THEN /\ fwWaits' = Append(fwWaits, IF fwVariant = "retryAfter"
                                        THEN retryAfterMs(retryAfter, fwAttempt)
                                        ELSE waitMs(fwVariant, fwAttempt))
          /\ fwPc' = "delay"
          /\ UNCHANGED fwResult
     ELSE /\ fwResult' = status
          /\ fwPc' = "returned"
          /\ UNCHANGED fwWaits
  /\ UNCHANGED <<fwVariant, fwUrl, fwHeaders, fwMaxRetries, fwAttempt, fwRequests, upstream>>
  /\ UNCHANGED <<pageVars, extractVars, pipeVars, aiVars>>

\* the awaited fetch answers with a status
FetchResponds(status) == FetchRespondsWith(status, "null")

\* the awaited fetch rejects (network error): fetchWithRetry has no catch
FetchThrows ==
  /\ fwPc \in {"fetch", "postLoopFetch"}
  /\ fwPc' = "threw"
  /\ UNCHANGED <<fwVariant, fwUrl, fwHeaders, fwMaxRetries, fwAttempt,
                 fwRequests, fwResponses, fwWaits, fwResult, upstream>>
  /\ UNCHANGED <<pageVars, extractVars, pipeVars, aiVars>>

\* await delay(waitMs) is over: continue, attempt++, and either the next
\* request of the loop or the request after the loop
DelayElapses ==
  /\ fwPc = "delay"
  /\ fwAttempt' = fwAttempt + 1
  /\ fwRequests' = Append(fwRequests, FetchRequest(fwUrl, fwHeaders))
  /\ fwPc' = IF LoopCondition(fwVariant, fwAttempt + 1, fwMaxRetries)
             THEN "fetch" ELSE "postLoopFetch"
  /\ upstream' = Sent(upstream, fwUrl)
  /\ UNCHANGED <<fwVariant, fwUrl, fwHeaders, fwMaxRetries, fwResponses, fwWaits, fwResult>>
  /\ UNCHANGED <<pageVars, extractVars, pipeVars, aiVars>>

(* ============================ extractFrames ============================ *)
NodeTypes == {"DOCUMENT", "CANVAS", "FRAME", "COMPONENT", "COMPONENT_SET", "SECTION", "GROUP"}

\* node.children of the node at path p: the number of its children
NumChildren(t, p) == Cardinality({q \in DOMAIN t : Len(q) = Len(p) + 1 /\ SubSeq(q, 1, Len(p)) = p})

\* the type test of extractFrames on a child of a CANVAS
Exportable(type) ==
  \/ type = "FRAME"
  \/ type = "COMPONENT"
  \/ type = "COMPONENT_SET"
  \/ type = "SECTION"

\* mutant: extractFrames that also descends below the children of a page
RECURSIVE extractFrames_Deep(_, _)
extractFrames_Deep(t, p) ==
  LET nc == NumChildren(t, p)
      RECURSIVE Over(_)
      Over(k) ==
        IF k > nc THEN <<>>
        ELSE LET c == Append(p, k) IN
             (IF t[p] = "CANVAS" /\ Exportable(t[c]) THEN <<c>> ELSE <<>>)
               \o extractFrames_Deep(t, c) \o Over(k + 1)
  IN Over(1)

\* extractFrames(node) for the node at path p of tree t
RECURSIVE extractFrames(_, _)
extractFrames(t, p) ==
  LET nc == NumChildren(t, p)
      RECURSIVE Direct(_)
      Direct(k) ==
        IF k > nc THEN <<>>
        ELSE (IF Exportable(t[Append(p, k)]) THEN << Append(p, k) >> ELSE <<>>) \o Direct(k + 1)
      RECURSIVE Below(_)
      Below(k) ==
        IF k > nc THEN <<>>
        ELSE extractFrames(t, Append(p, k)) \o Below(k + 1)
  IN IF t[p] = "CANVAS" /\ nc > 0 THEN Direct(1)
     ELSE IF nc > 0 THEN Below(1)
     ELSE <<>>

\* a tree from its list of <<path, type>> nodes
TreeOf(nodes) == [p \in {n[1] : n \in nodes} |-> (CHOOSE n \in nodes : n[1] = p)[2]]

\* Scenario A: 3 pages with 2 frames each, one component nested in a frame
ScenarioA ==
  TreeOf({ << <<>>, "DOCUMENT" >>,
           << <<1>>, "CANVAS" >>, << <<2>>, "CANVAS" >>, << <<3>>, "CANVAS" >>,
           << <<1, 1>>, "FRAME" >>, << <<1, 2>>, "FRAME" >>,
           << <<2, 1>>, "FRAME" >>, << <<2, 2>>, "FRAME" >>,
           << <<3, 1>>, "FRAME" >>, << <<3, 2>>, "FRAME" >>,
           << <<1, 1, 1>>, "COMPONENT" >> })

\* the caller builds its input: one more node of some type under node p
AddChild(p, type) ==
  /\ exPc = "input"
  /\ Cardinality(DOMAIN tree) < MaxNodes
  /\ p \in DOMAIN tree
  /\ LET c == Append(p, NumChildren(tree, p) + 1) IN
     tree' = [q \in DOMAIN tree \cup {c} |-> IF q = c THEN type ELSE tree[q]]
  /\ UNCHANGED <<exPc, extracted>>
  /\ UNCHANGED <<pageVars, retryVars, pipeVars, aiVars>>

\* extractFrames(root)
ExtractFrames ==
  /\ exPc = "input"
  /\ extracted' = extractFrames(tree, <<>>)
  /\ exPc' = "done"
  /\ UNCHANGED tree
  /\ UNCHANGED <<pageVars, retryVars, pipeVars, aiVars>>

(* ===================== fetch-figma-frames handler ====================== *)
\* The repository holds four handlers of this function.  Each is described
\* by its export strategy and by the constants and messages of its code.

\* supabase/functions/fetch-figma-frames/index.ts: single-shot with batched
\* fallback
Deployed ==
  [ name |-> "deployed", strategy |-> "singleShot", retries |-> TRUE,
    cap |-> 12, batchSize |-> 4, exportDelay |-> 500, batchDelay |-> 1500,
    rateLimit |-> "Figma API rate limit reached. Please wait a minute and try again." ]

\* unnamed/part_000, second file: single-shot with batched fallback
SingleShotVariant ==
  [ name |-> "singleShot", strategy |-> "singleShot", retries |-> TRUE,
    cap |-> 10, batchSize |-> 3, exportDelay |-> 1000, batchDelay |-> 2000,
    rateLimit |-> "rate_limit" ]

\* unnamed/part_000, first file: one frame at a time
SequentialVariant ==
  [ name |-> "sequential", strategy |-> "sequential", retries |-> TRUE,
    cap |-> 8, batchSize |-> 1, exportDelay |-> 500, batchDelay |-> 400,
    rateLimit |-> "rate_limit" ]

\* unnamed/part_001: batches only, plain fetch, no delay
BatchedVariant ==
  [ name |-> "batched", strategy |-> "batched", retries |-> FALSE,
    cap |-> 20, batchSize |-> 5, exportDelay |-> 0, batchDelay |-> 0,
    rateLimit |-> "none" ]

Handlers == {Deployed, SingleShotVariant, SequentialVariant, BatchedVariant}

HandlerNames == {h.name : h \in Handlers}

Handler(name) == CHOOSE h \in Handlers : h.name = name

\* a URL string as its pieces; <<>> is the empty string
FigmaUrls ==
  { <<>>,
    <<"https://", "example.com", "/design/", "KEY">>,
    <<"www.figma.com", "/file/", "KEY">>,
    <<"https://", "www.figma.com", "/design/", "KEY">> }

\* url.match(/figma\.com\/(?:file|design)\/([a-zA-Z0-9]+)/)
MatchesPattern(url) ==
  \E k \in 1..(Len(url) - 2) :
     /\ url[k] \in {"figma.com", "www.figma.com"}
     /\ url[k + 1] \in {"/file/", "/design/"}
     /\ url[k + 2] = "KEY"

\* parseFigmaUrl(url): "null", the file key, or "throws" when new URL(url)
\* rejects a string without a scheme
parseFigmaUrl(url) ==
  IF ~MatchesPattern(url) THEN "null"
  ELSE IF url[1] # "https://" THEN "throws"
  ELSE "KEY"

\* new Response(JSON.stringify({ error }), { status })
ErrorResponse(status, message) == [status |-> status, body |-> [error |-> message]]

\* the response of the outer catch: { error: e.message }, status 500
CaughtResponse(message) == ErrorResponse(500, message)

NoResponse == [status |-> 0, body |-> [none |-> TRUE]]

IsSuccess(r) == "frames" \in DOMAIN r.body

IsError(r) == "error" \in DOMAIN r.body

Range(seq) == {seq[k] : k \in 1..Len(seq)}

\* array.slice(from, to), 0-based, to exclusive
Slice(seq, from, to) == SubSeq(seq, from + 1, Min(to, Len(seq)))

\* mutant: the pages are concatenated last page first
RECURSIVE ExtractAll_LastPageFirst(_, _)
ExtractAll_LastPageFirst(t, k) ==
  IF k > NumChildren(t, <<>>) THEN <<>>
  ELSE ExtractAll_LastPageFirst(t, k + 1) \o extractFrames(t, <<k>>)

\* for (const page of fileData.document.children)
\*   allFrames.push(...extractFrames(page)), from page k on
RECURSIVE ExtractAll(_, _)
ExtractAll(t, k) ==
  IF k > NumChildren(t, <<>>) THEN <<>>
  ELSE extractFrames(t, <<k>>) \o ExtractAll(t, k + 1)

\* mutant: the cap lets one frame too many through
Capped_OffByOne(all, cap) == Slice(all, 0, cap + 1)

\* mutant: the frame list is not truncated
Capped_NoCap(all, cap) == all

\* allFrames.slice(0, cap)
Capped(all, cap) == Slice(all, 0, cap)

\* mutant: an empty frame list is exported like any other
NoFrames_Never(all) == FALSE

\* if (allFrames.length === 0)
NoFrames(all) == Len(all) = 0

EmptyImages == [id \in {} |-> "null"]

\* Object.assign(allImages, images)
ObjectAssign(target, images) ==
  [id \in DOMAIN target \cup DOMAIN images |->
     IF id \in DOMAIN images THEN images[id] ELSE target[id]]

\* allImages[frame.id] || null
ImageUrl(images, id) ==
  IF id \in DOMAIN images /\ images[id] # "null" THEN images[id] ELSE "null"

FrameOf(images, id) ==
  [id |-> id, name |-> id, nodeId |-> id, imageUrl |-> ImageUrl(images, id)]

\* mutant: the frames without an image are kept
RECURSIVE BuildFrames_KeepNull(_, _)
BuildFrames_KeepNull(toExport, images) ==
  IF toExport = <<>> THEN <<>>
  ELSE << FrameOf(images, Head(toExport)) >> \o BuildFrames_KeepNull(Tail(toExport), images)

\* framesToExport.map(...).filter((f) => f.imageUrl !== null)
RECURSIVE BuildFrames(_, _)
BuildFrames(toExport, images) ==
  IF toExport = <<>> THEN <<>>
  ELSE (IF ImageUrl(images, Head(toExport)) # "null"
        THEN << FrameOf(images, Head(toExport)) >> ELSE <<>>)
       \o BuildFrames(Tail(toExport), images)

\* mutant: totalFrames counts the capped list
SuccessResponse_CappedTotal(all, toExport, frs) ==
  [status |-> 200,
   body |-> [fileName |-> "Untitled", fileKey |-> "KEY", frames |-> frs,
             totalFrames |-> Len(toExport), exportedFrames |-> Len(frs)]]

\* { fileName, fileKey, frames, totalFrames: allFrames.length,
\*   exportedFrames: frames.length }
SuccessResponse(all, toExport, frs) ==
  [status |-> 200,
   body |-> [fileName |-> "Untitled", fileKey |-> "KEY", frames |-> frs,
             totalFrames |-> Len(all), exportedFrames |-> Len(frs)]]

\* the sequential variant answers an empty frame list with an error (the
\* dash of the message is written in ASCII here)
EmptyExportMessage ==
  "Could not export any frame images. Figma may be rate limiting - wait 60 seconds and try again."

\* mutant: the response is the success payload whatever frames.length is
BuildResponse_AlwaysSuccess(h, all, toExport, images) ==
  SuccessResponse(all, toExport, BuildFrames(toExport, images))

\* STEP 4 / 5: build the response from the images gathered
BuildResponse(h, all, toExport, images) ==
  LET frs == BuildFrames(toExport, images) IN
  IF h.strategy = "sequential" /\ Len(frs) = 0
  THEN ErrorResponse(500, EmptyExportMessage)
  ELSE SuccessResponse(all, toExport, frs)

\* mutant: a rate-limited file fetch is reported as a generic upstream error
FileErrorResponse_Generic429(h, status) ==
  IF status = 403
  THEN ErrorResponse(403, "Access denied. Make sure your Figma token has access to this file.")
  ELSE ErrorResponse(500, "Figma API error: " \o ToString(status))

\* if (!fileResponse.ok) { 403 ... 429 ... else ... }; the batched variant
\* has no branch for 429
FileErrorResponse(h, status) ==
  IF status = 403
  THEN ErrorResponse(403, "Access denied. Make sure your Figma token has access to this file.")
  ELSE IF status = 429 /\ h.strategy # "batched"
  THEN ErrorResponse(429, h.rateLimit)
  ELSE ErrorResponse(500, "Figma API error: " \o ToString(status))

\* response.ok
Ok(status) == status >= 200 /\ status <= 299

\* the status recorded for a fetch that rejects instead of answering
Rejected == -1

\* the images of an ok export answer for the ids asked: every image
\* rendered, none rendered, or all but the first or the last rendered
ImageMaps(ids) ==
  {[id \in Range(ids) |-> "http"], [id \in Range(ids) |-> "null"]}
    \cup {[id \in Range(ids) |-> IF id = missing THEN "null" ELSE "http"] :
            missing \in {ids[k] : k \in {1, Len(ids)} \cap DOMAIN ids}}

\* what an awaited export call can come back with: an ok answer with its
\* images, a failure status (429: still 429 after the retries), a rejection
ExportAnswers(ids) ==
  {[status |-> 200, images |-> m] : m \in ImageMaps(ids)}
    \cup {[status |-> st, images |-> EmptyImages] : st \in {403, 429, 500, Rejected}}

\* mutant: a rate-limited export call is skipped like any failed call
RateLimitAborts_Never(h, status) == FALSE

\* mutant: every failed export call ends the request with the rate-limit error
RateLimitAborts_AnyFailure(h, status) == h.strategy = "singleShot" /\ ~Ok(status)

\* else if (imageResponse.status === 429) return ... status: 429
RateLimitAborts(h, status) == h.strategy = "singleShot" /\ status = 429

\* mutant: the sequential loop goes on after a rate-limited call
RateLimitBreaks_Never(h, status) == FALSE

\* else if (imgResponse.status === 429) break
RateLimitBreaks(h, status) == h.strategy = "sequential" /\ status = 429

\* mutant: a batch runs one frame into the next one
Batch_Overlapping(h, toExport, i) == Slice(toExport, i, i + h.batchSize + 1)

\* framesToExport.slice(i, i + BATCH_SIZE)
Batch(h, toExport, i) == Slice(toExport, i, i + h.batchSize)

\* the ids an ok answer resolved to a URL
ResolvedBy(a) == IF Ok(a.status) THEN {id \in DOMAIN a.images : a.images[id] # "null"} ELSE {}

\* fetchWithRetry(...) / fetch(...) is called: the call is pending
Issue(calls, c) == calls \cup {c}

\* mutant: the handler goes on without waiting for the call to settle
Awaited_StillPending(calls, c) == calls

\* await: the handler resumes when the call has settled
Awaited(calls, c) == calls \ {c}

\* the pending calls over a step of the handler: the call it resumes from
\* has settled, and the call it issues before its next await is pending
Await(answered) ==
  inFlight' =
    LET rest == IF answered THEN Awaited(inFlight, Len(exportRequests)) ELSE inFlight
    IN IF exportRequests' # exportRequests
       THEN Issue(rest, Len(exportRequests'))
       ELSE rest

\* fetchFrames(figmaUrl) of useFigmaFrames up to its await: the state is
\* reset and the function is invoked
fetchFrames(figmaUrl) ==
  /\ ffPc = "idle"
  /\ plPc = "idle"
  /\ figmaLoading' = TRUE
  /\ figmaError' = "null"
  /\ hookFrames' = <<>>
  /\ ffUrl' = figmaUrl
  /\ ffPc' = "invoking"
  /\ UNCHANGED <<handlerVars, pageVars, retryVars, extractVars, aiVars>>

\* the handler from the arrival of the request to its first await: the
\* request is the POST of fetchFrames, or an OPTIONS preflight
serve(hv, method, figmaUrl, token) ==
  /\ plPc = "idle"
  /\ \/ ffPc = "invoking" /\ method = "POST" /\ figmaUrl = ffUrl
     \/ ffPc = "idle" /\ method = "OPTIONS" /\ figmaUrl = <<>>
  /\ hVariant' = hv
  /\ IF method = "OPTIONS"
     THEN /\ response' = [status |-> 200, body |-> [null |-> TRUE]]
          /\ plPc' = "responded"
     ELSE IF figmaUrl = <<>>
     THEN /\ response' = ErrorResponse(400, "figmaUrl is required")
          /\ plPc' = "responded"
     ELSE IF ~token
     THEN /\ response' = ErrorResponse(500, "FIGMA_ACCESS_TOKEN is not configured. Please add your Figma token.")
          /\ plPc' = "responded"
     ELSE IF parseFigmaUrl(figmaUrl) = "throws"
     THEN /\ response' = CaughtResponse("Invalid URL")
          /\ plPc' = "responded"
     ELSE IF parseFigmaUrl(figmaUrl) = "null"
     THEN /\ response' = ErrorResponse(400, "Invalid Figma URL. Please provide a valid Figma file or design link.")
          /\ plPc' = "responded"
     ELSE /\ plPc' = "fileFetch"
          /\ UNCHANGED response
  /\ inFlight' = IF plPc' = "fileFetch" THEN Issue(inFlight, 0) ELSE inFlight
  /\ UNCHANGED <<allFrames, framesToExport, allImages, loopI, exportRequests,
                 lastAnswer, resolved, exportLimited>>
  /\ UNCHANGED <<figmaHookVars, pageVars, retryVars, extractVars, aiVars>>

\* return new Response(...): the request is over
Respond(r) ==
  /\ response' = r
  /\ plPc' = "responded"

\* the file-tree call comes back: error branches, extraction over the
\* pages, the empty check and the cap, up to the next await
FileResponds(status) ==
  /\ plPc = "fileFetch"
  /\ lastAnswer' = status
  /\ LET h == Handler(hVariant)
         all == ExtractAll(tree, 1)
         toExport == Capped(all, h.cap) IN
     IF status = Rejected
     THEN /\ Respond(CaughtResponse("fetch failed"))
          /\ UNCHANGED <<allFrames, framesToExport, loopI, exportRequests>>
     ELSE IF ~Ok(status)
     THEN /\ Respond(FileErrorResponse(h, status))
          /\ UNCHANGED <<allFrames, framesToExport, loopI, exportRequests>>
     ELSE IF NoFrames(all)
     THEN /\ allFrames' = all
          /\ Respond(ErrorResponse(400, "No frames found in this Figma file."))
          /\ UNCHANGED <<framesToExport, loopI, exportRequests>>
     ELSE /\ allFrames' = all
          /\ framesToExport' = toExport
          /\ UNCHANGED response
          /\ IF h.strategy = "batched"
             THEN /\ loopI' = 0
                  /\ exportRequests' = Append(exportRequests, Batch(h, toExport, 0))
                  /\ plPc' = "batch"
             ELSE /\ plPc' = "exportDelay"
                  /\ UNCHANGED <<loopI, exportRequests>>
  /\ UNCHANGED <<hVariant, allImages, resolved, exportLimited>>
  /\ Await(TRUE)
  /\ UNCHANGED <<figmaHookVars, pageVars, retryVars, extractVars, aiVars>>

\* await delay(500) (1000 in the second single-shot handler) is over: the
\* single-shot call goes out, resp. the sequential loop starts with its
\* first await delay(400)
ExportDelayElapses ==
  /\ plPc = "exportDelay"
  /\ IF Handler(hVariant).strategy = "singleShot"
     THEN /\ exportRequests' = Append(exportRequests, framesToExport)
          /\ plPc' = "singleShot"
          /\ UNCHANGED loopI
     ELSE /\ loopI' = 0
          /\ plPc' = "itemDelay"
          /\ UNCHANGED exportRequests
  /\ UNCHANGED <<hVariant, allFrames, framesToExport, allImages, lastAnswer,
                 resolved, exportLimited, response>>
  /\ Await(FALSE)
  /\ UNCHANGED <<figmaHookVars, pageVars, retryVars, extractVars, aiVars>>

\* the single-shot export call comes back
SingleShotResponds(a) ==
  /\ plPc = "singleShot"
  /\ a \in ExportAnswers(framesToExport)
  /\ lastAnswer' = a.status
  /\ resolved' = resolved \cup ResolvedBy(a)
  /\ exportLimited' = (exportLimited \/ a.status = 429)
  /\ LET h == Handler(hVariant) IN
     IF a.status = Rejected
     THEN /\ Respond(CaughtResponse("fetch failed"))
          /\ UNCHANGED <<allImages, loopI, exportRequests>>
     ELSE IF Ok(a.status)
     THEN /\ allImages' = ObjectAssign(allImages, a.images)
          /\ Respond(BuildResponse(h, allFrames, framesToExport, allImages'))
          /\ UNCHANGED <<loopI, exportRequests>>
     ELSE IF RateLimitAborts(h, a.status)
     THEN /\ Respond(ErrorResponse(429, h.rateLimit))
          /\ UNCHANGED <<allImages, loopI, exportRequests>>
     ELSE /\ loopI' = 0
          /\ exportRequests' = Append(exportRequests, Batch(h, framesToExport, 0))
          /\ plPc' = "batch"
          /\ UNCHANGED <<allImages, response>>
  /\ UNCHANGED <<hVariant, allFrames, framesToExport>>
  /\ Await(TRUE)
  /\ UNCHANGED <<figmaHookVars, pageVars, retryVars, extractVars, aiVars>>

\* a batch export call comes back
BatchResponds(a) ==
  /\ plPc = "batch"
  /\ a \in ExportAnswers(Batch(Handler(hVariant), framesToExport, loopI))
  /\ lastAnswer' = a.status
  /\ resolved' = resolved \cup ResolvedBy(a)
  /\ exportLimited' = (exportLimited \/ a.status = 429)
  /\ LET h == Handler(hVariant)
         next == loopI + h.batchSize IN
     IF a.status = Rejected
     THEN /\ Respond(CaughtResponse("fetch failed"))
          /\ UNCHANGED <<allImages, loopI, exportRequests>>
     ELSE IF RateLimitAborts(h, a.status)
     THEN /\ Respond(ErrorResponse(429, h.rateLimit))
          /\ UNCHANGED <<allImages, loopI, exportRequests>>
     ELSE /\ allImages' = IF Ok(a.status) THEN ObjectAssign(allImages, a.images) ELSE allImages
          /\ loopI' = next
          /\ IF next < Len(framesToExport)
             THEN /\ UNCHANGED response
                  /\ IF h.strategy = "batched"
                     THEN /\ exportRequests' = Append(exportRequests, Batch(h, framesToExport, next))
                          /\ plPc' = "batch"
                     ELSE /\ plPc' = "batchDelay"
                          /\ UNCHANGED exportRequests
             ELSE /\ Respond(BuildResponse(h, allFrames, framesToExport, allImages'))
                  /\ UNCHANGED exportRequests
  /\ UNCHANGED <<hVariant, allFrames, framesToExport>>
  /\ Await(TRUE)
  /\ UNCHANGED <<figmaHookVars, pageVars, retryVars, extractVars, aiVars>>

\* if (i > 0) await delay(1500) is over: the next batch call goes out
BatchDelayElapses ==
  /\ plPc = "batchDelay"
  /\ exportRequests' = Append(exportRequests, Batch(Handler(hVariant), framesToExport, loopI))
  /\ plPc' = "batch"
  /\ UNCHANGED <<hVariant, allFrames, framesToExport, allImages, loopI, lastAnswer,
                 resolved, exportLimited, response>>
  /\ Await(FALSE)
  /\ UNCHANGED <<figmaHookVars, pageVars, retryVars, extractVars, aiVars>>

\* sequential variant: await delay(400) is over, the call for the frame at
\* hand goes out
ItemDelayElapses ==
  /\ plPc = "itemDelay"
  /\ exportRequests' = Append(exportRequests, << framesToExport[loopI + 1] >>)
  /\ plPc' = "item"
  /\ UNCHANGED <<hVariant, allFrames, framesToExport, allImages, loopI, lastAnswer,
                 resolved, exportLimited, response>>
  /\ Await(FALSE)
  /\ UNCHANGED <<figmaHookVars, pageVars, retryVars, extractVars, aiVars>>

\* sequential variant: the call for one frame comes back; a rejection is
\* caught inside the loop
ItemResponds(a) ==
  /\ plPc = "item"
  /\ a \in ExportAnswers(<< framesToExport[loopI + 1] >>)
  /\ lastAnswer' = a.status
  /\ resolved' = resolved \cup ResolvedBy(a)
  /\ exportLimited' = (exportLimited \/ a.status = 429)
  /\ LET h == Handler(hVariant)
         id == framesToExport[loopI + 1] IN
     /\ allImages' = IF Ok(a.status) /\ a.images[id] # "null"
                     THEN ObjectAssign(allImages, [x \in {id} |-> a.images[id]])
                     ELSE allImages
     /\ IF RateLimitBreaks(h, a.status)
        THEN /\ Respond(BuildResponse(h, allFrames, framesToExport, allImages'))
             /\ UNCHANGED loopI
        ELSE /\ loopI' = loopI + 1
             /\ IF loopI + 1 < Len(framesToExport)
                THEN /\ plPc' = "itemDelay"
                     /\ UNCHANGED response
                ELSE Respond(BuildResponse(h, allFrames, framesToExport, allImages'))
  /\ UNCHANGED <<hVariant, allFrames, framesToExport, exportRequests>>
  /\ Await(TRUE)
  /\ UNCHANGED <<figmaHookVars, pageVars, retryVars, extractVars, aiVars>>

\* response.frames.filter((f) => f.imageUrl && f.imageUrl.startsWith("http"))
RECURSIVE ValidFrames(_)
ValidFrames(frs) ==
  IF frs = <<>> THEN <<>>
  ELSE (IF Head(frs).imageUrl # "null" /\ Head(frs).imageUrl = "http"
        THEN << Head(frs) >> ELSE <<>>) \o ValidFrames(Tail(frs))

\* fetchFrames after its await: invoke reports a non-2xx answer as fnError,
\* an error body and an empty list of valid frames are thrown, and the
\* catch turns what was thrown into the error state
FetchFramesResumes ==
  /\ ffPc = "invoking"
  /\ plPc = "responded"
  /\ IF ~Ok(response.status)
     THEN /\ figmaError' = "Edge Function returned a non-2xx status code"
          /\ UNCHANGED hookFrames
     ELSE IF IsError(response)
     THEN /\ figmaError' = response.body.error
          /\ UNCHANGED hookFrames
     ELSE IF Len(ValidFrames(response.body.frames)) = 0
     THEN /\ figmaError' = "No valid frames could be exported. Try a different Figma file."
          /\ UNCHANGED hookFrames
     ELSE /\ hookFrames' = ValidFrames(response.body.frames)
          /\ UNCHANGED figmaError
  /\ figmaLoading' = FALSE
  /\ ffPc' = "done"
  /\ UNCHANGED <<ffUrl, handlerVars, pageVars, retryVars, extractVars, aiVars>>

\* a design file: pages of the document, children of each page; child
\* `group` of every page (0: none) is a GROUP that itself holds a frame
FileTree(pages, children, group) ==
  LET paths == {<<>>} \cup {<<k>> : k \in 1..pages}
               \cup {<<k, j>> : k \in 1..pages, j \in 1..children}
               \cup {<<k, j, 1>> : k \in 1..pages, j \in {group} \cap (1..children)}
  IN [p \in paths |->
        IF Len(p) = 0 THEN "DOCUMENT"
        ELSE IF Len(p) = 1 THEN "CANVAS"
        ELSE IF Len(p) = 2 /\ p[2] = group THEN "GROUP"
        ELSE "FRAME"]

(* ------------------------- response sanitizer -------------------------- *)
\* A text is a sequence of lexical units.  Every unit stands for the
\* characters it names; FENCE is three backticks, NL a line feed, SP a
\* blank, QUOTE a double quote, ESC_FENCE three backticks written as
\* unicode escapes (u0060), ESC_NL the two characters backslash n.
FENCE == "[three backticks]"
NL == "\n"
SP == " "
QUOTE == "\""
ESC_FENCE == "\\u0060\\u0060\\u0060"
ESC_NL == "\\n"

Whitespace == {SP, NL}
Literals == {"true", "false", "null"}

\* number tokens and the number each denotes
NumVal == [tok \in {"0", "5", "80", "80.0", "101", "-1"} |->
            CASE tok = "0" -> 0 [] tok = "5" -> 5 [] tok = "80" -> 80
              [] tok = "80.0" -> 80 [] tok = "101" -> 101 [] tok = "-1" -> 0 - 1]
Numbers == DOMAIN NumVal

\* content.replace(/FENCE json NL?/g, "")
RECURSIVE StripJsonFences(_)
StripJsonFences(t) ==
  IF t = <<>> THEN <<>>
  ELSE IF Len(t) >= 2 /\ t[1] = FENCE /\ t[2] = "json"
  THEN IF Len(t) >= 3 /\ t[3] = NL
       THEN StripJsonFences(SubSeq(t, 4, Len(t)))
       ELSE StripJsonFences(SubSeq(t, 3, Len(t)))
  ELSE << Head(t) >> \o StripJsonFences(Tail(t))

\* .replace(/FENCE NL?/g, "")
RECURSIVE StripFences(_)
StripFences(t) ==
  IF t = <<>> THEN <<>>
  ELSE IF t[1] = FENCE
  THEN IF Len(t) >= 2 /\ t[2] = NL
       THEN StripFences(SubSeq(t, 3, Len(t)))
       ELSE StripFences(Tail(t))
  ELSE << Head(t) >> \o StripFences(Tail(t))

\* .trim()
RECURSIVE Trim(_)
Trim(t) ==
  IF t = <<>> THEN <<>>
  ELSE IF t[1] \in Whitespace THEN Trim(Tail(t))
  ELSE IF t[Len(t)] \in Whitespace THEN Trim(SubSeq(t, 1, Len(t) - 1))
  ELSE t

\* let cleaned = content.replace(...).replace(...).trim()
Clean(content) == Trim(StripFences(StripJsonFences(content)))

\* JSON values: t is the kind, n the number, s the decoded content of a
\* string or the name of a literal, keys/kids the members of an object in
\* insertion order, kids the elements of an array
MkNum(n) == [t |-> "num", n |-> n, s |-> <<>>, keys |-> <<>>, kids |-> <<>>]
MkStr(s) == [t |-> "str", n |-> 0, s |-> s, keys |-> <<>>, kids |-> <<>>]
MkLit(name) == [t |-> "lit", n |-> 0, s |-> <<name>>, keys |-> <<>>, kids |-> <<>>]
MkArr(kids) == [t |-> "arr", n |-> 0, s |-> <<>>, keys |-> <<>>, kids |-> kids]
MkObj(keys, kids) == [t |-> "obj", n |-> 0, s |-> <<>>, keys |-> keys, kids |-> kids]
JsNull == MkLit("null")

\* the outcome of a parsing step: the value and the position after it, or
\* a SyntaxError
Parsed(val, next) == [ok |-> TRUE, val |-> val, next |-> next]
SyntaxError == [ok |-> FALSE, val |-> JsNull, next |-> 0]

\* JSON whitespace is skipped between tokens
RECURSIVE SkipWs(_, _)
SkipWs(t, i) ==
  IF i <= Len(t) /\ t[i] \in Whitespace THEN SkipWs(t, i + 1) ELSE i

\* the characters a unit inside a string literal denotes
Unescape(u) == IF u = ESC_FENCE THEN FENCE ELSE IF u = ESC_NL THEN NL ELSE u

\* a string literal from the unit after its opening quote: a raw line feed
\* is not allowed inside it, an escape denotes its character
RECURSIVE ParseChars(_, _, _)
ParseChars(t, i, acc) ==
  IF i > Len(t) THEN SyntaxError
  ELSE IF t[i] = QUOTE THEN Parsed(MkStr(acc), i + 1)
  ELSE IF t[i] = NL THEN SyntaxError
  ELSE ParseChars(t, i + 1, Append(acc, Unescape(t[i])))

\* obj[key] = value: a repeated key keeps its place and takes the new value
PutMember(keys, kids, k, v) ==
  IF \E j \in 1..Len(keys) : keys[j] = k
  THEN LET j == CHOOSE j \in 1..Len(keys) : keys[j] = k
       IN MkObj(keys, [kids EXCEPT ![j] = v])
  ELSE MkObj(Append(keys, k), Append(kids, v))

RECURSIVE ParseValue(_, _)
RECURSIVE ParseMembers(_, _, _)
RECURSIVE ParseElements(_, _, _)

\* the members of an object from the position where a key is expected
ParseMembers(t, i, obj) ==
  IF i > Len(t) \/ t[i] # QUOTE THEN SyntaxError
  ELSE LET k == ParseChars(t, i + 1, <<>>) IN
    IF ~k.ok THEN SyntaxError
    ELSE LET c == SkipWs(t, k.next) IN
      IF c > Len(t) \/ t[c] # ":" THEN SyntaxError
      ELSE LET v == ParseValue(t, SkipWs(t, c + 1)) IN
        IF ~v.ok THEN SyntaxError
        ELSE LET e == SkipWs(t, v.next)
                 o == PutMember(obj.keys, obj.kids, k.val.s, v.val) IN
          IF e > Len(t) THEN SyntaxError
          ELSE IF t[e] = "}" THEN Parsed(o, e + 1)
          ELSE IF t[e] = "," THEN ParseMembers(t, SkipWs(t, e + 1), o)
          ELSE SyntaxError

\* the elements of an array from the position where a value is expected
ParseElements(t, i, kids) ==
  LET v == ParseValue(t, i) IN
  IF ~v.ok THEN SyntaxError
  ELSE LET e == SkipWs(t, v.next) IN
    IF e > Len(t) THEN SyntaxError
    ELSE IF t[e] = "]" THEN Parsed(MkArr(Append(kids, v.val)), e + 1)
    ELSE IF t[e] = "," THEN ParseElements(t, SkipWs(t, e + 1), Append(kids, v.val))
    ELSE SyntaxError

\* one JSON value from position i (whitespace skipped)
ParseValue(t, i) ==
  IF i > Len(t) THEN SyntaxError
  ELSE IF t[i] = "{"
  THEN LET j == SkipWs(t, i + 1) IN
       IF j <= Len(t) /\ t[j] = "}" THEN Parsed(MkObj(<<>>, <<>>), j + 1)
       ELSE ParseMembers(t, j, MkObj(<<>>, <<>>))
  ELSE IF t[i] = "["
  THEN LET j == SkipWs(t, i + 1) IN
       IF j <= Len(t) /\ t[j] = "]" THEN Parsed(MkArr(<<>>), j + 1)
       ELSE ParseElements(t, j, <<>>)
  ELSE IF t[i] = QUOTE THEN ParseChars(t, i + 1, <<>>)
  ELSE IF t[i] \in Numbers THEN Parsed(MkNum(NumVal[t[i]]), i + 1)
  ELSE IF t[i] \in Literals THEN Parsed(MkLit(t[i]), i + 1)
  ELSE SyntaxError

\* JSON.parse(text): one value, whitespace around it, nothing else
JSONParse(t) ==
  LET v == ParseValue(t, SkipWs(t, 1)) IN
  IF v.ok /\ SkipWs(t, v.next) = Len(t) + 1 THEN v ELSE SyntaxError

\* cleaned.indexOf(u), counted from 1; 0 where the code has -1
IndexOf(t, u) ==
  IF \E i \in 1..Len(t) : t[i] = u
  THEN CHOOSE i \in 1..Len(t) : t[i] = u /\ \A j \in 1..(i - 1) : t[j] # u
  ELSE 0

\* cleaned.lastIndexOf(u), counted from 1; 0 where the code has -1
LastIndexOf(t, u) ==
  IF \E i \in 1..Len(t) : t[i] = u
  THEN CHOOSE i \in 1..Len(t) : t[i] = u /\ \A j \in (i + 1)..Len(t) : t[j] # u
  ELSE 0

\* cleaned.replace(/,\s*([\]}])/g, "$1"): a comma, the whitespace after it
\* and a closing bracket or brace are replaced by the bracket or brace
RECURSIVE StripTrailingCommas(_)
StripTrailingCommas(t) ==
  IF t = <<>> THEN <<>>
  ELSE LET j == SkipWs(t, 2) IN
    IF t[1] = "," /\ j <= Len(t) /\ t[j] \in {"]", "}"}
    THEN << t[j] >> \o StripTrailingCommas(SubSeq(t, j + 1, Len(t)))
    ELSE << t[1] >> \o StripTrailingCommas(Tail(t))

\* what tryParseJSON returns: the value of the stage that parsed (stage 0
\* and JSON null: none did, the function returns null), with the stages
\* attempted in order
Recovered(stage, value, tried) == [stage |-> stage, value |-> value, tried |-> tried]
NotRecovered(tried) == [stage |-> 0, value |-> JsNull, tried |-> tried]

\* mutant: the substring between the braces is tried before the whole text
tryParseJSON_SubstringFirst(content) ==
  LET cleaned == Clean(content)
      direct == JSONParse(cleaned)
      jsonStart == IndexOf(cleaned, "{")
      jsonEnd == LastIndexOf(cleaned, "}")
      hasBraces == jsonStart # 0 /\ jsonEnd # 0 /\ jsonEnd > jsonStart
      sub == IF hasBraces THEN JSONParse(SubSeq(cleaned, jsonStart, jsonEnd))
             ELSE SyntaxError
      stripped == JSONParse(StripTrailingCommas(cleaned))
      tried == IF hasBraces THEN <<1, 2, 3>> ELSE <<1, 3>>
  IN IF sub.ok THEN Recovered(2, sub.val, <<2>>)
     ELSE IF direct.ok THEN Recovered(1, direct.val, <<2, 1>>)
     ELSE IF stripped.ok THEN Recovered(3, stripped.val, tried)
     ELSE NotRecovered(tried)

\* tryParseJSON(content): every JSON.parse is inside its own try/catch
tryParseJSON(content) ==
  LET cleaned == Clean(content)
      direct == JSONParse(cleaned)
      jsonStart == IndexOf(cleaned, "{")
      jsonEnd == LastIndexOf(cleaned, "}")
      hasBraces == jsonStart # 0 /\ jsonEnd # 0 /\ jsonEnd > jsonStart
      sub == IF hasBraces THEN JSONParse(SubSeq(cleaned, jsonStart, jsonEnd))
             ELSE SyntaxError
      stripped == JSONParse(StripTrailingCommas(cleaned))
      tried == IF hasBraces THEN <<1, 2, 3>> ELSE <<1, 3>>
  IN IF direct.ok THEN Recovered(1, direct.val, <<1>>)
     ELSE IF sub.ok THEN Recovered(2, sub.val, <<1, 2>>)
     ELSE IF stripped.ok THEN Recovered(3, stripped.val, tried)
     ELSE NotRecovered(tried)

\* JSON.stringify of the characters of a string: a line feed is escaped, a
\* backtick is not
Escape(u) == IF u = NL THEN ESC_NL ELSE u

EscapeAll(chars) == [k \in 1..Len(chars) |-> Escape(chars[k])]

\* JSON.stringify(value), no indentation
RECURSIVE Stringify(_)
RECURSIVE StringifyMembers(_, _, _)
RECURSIVE StringifyElements(_, _)
StringifyMembers(keys, kids, k) ==
  IF k > Len(keys) THEN <<>>
  ELSE (IF k > 1 THEN << "," >> ELSE <<>>)
       \o << QUOTE >> \o EscapeAll(keys[k]) \o << QUOTE, ":" >> \o Stringify(kids[k])
       \o StringifyMembers(keys, kids, k + 1)

StringifyElements(kids, k) ==
  IF k > Len(kids) THEN <<>>
  ELSE (IF k > 1 THEN << "," >> ELSE <<>>) \o Stringify(kids[k])
       \o StringifyElements(kids, k + 1)

Stringify(v) ==
  IF v.t = "num" THEN << ToString(v.n) >>
  ELSE IF v.t = "lit" THEN v.s
  ELSE IF v.t = "str" THEN << QUOTE >> \o EscapeAll(v.s) \o << QUOTE >>
  ELSE IF v.t = "arr" THEN << "[" >> \o StringifyElements(v.kids, 1) \o << "]" >>
  ELSE << "{" >> \o StringifyMembers(v.keys, v.kids, 1) \o << "}" >>

(* ------------------------- audit-design handler ------------------------ *)
\* the value of a member of an object, undefined (JSON has none: null here)
\* when it has no such member
HasMember(v, key) == v.t = "obj" /\ \E j \in 1..Len(v.keys) : v.keys[j] = <<key>>

Member(v, key) ==
  IF HasMember(v, key)
  THEN v.kids[CHOOSE j \in 1..Len(v.keys) : v.keys[j] = <<key>>]
  ELSE JsNull

\* !value is false: null, false, 0 and "" are falsy
Truthy(v) ==
  /\ ~(v.t = "lit" /\ v.s \in {<<"null">>, <<"false">>})
  /\ ~(v.t = "num" /\ v.n = 0)
  /\ ~(v.t = "str" /\ v.s = <<>>)

\* a string value holding one message
Message(text) == MkStr(<<text>>)

\* { error: message }
ErrorPayload(message) == MkObj(<< <<"error">> >>, << Message(message) >>)

\* new Response(JSON.stringify(value), { status })
JsonResponse(status, value) == [status |-> status, body |-> value]

AuditError(status, message) == JsonResponse(status, ErrorPayload(message))

\* the response of the outer catch: { error: e.message }, status 500
AuditCaught(message) == AuditError(500, message)

NoAuditResponse == [status |-> 0, body |-> JsNull]

\* mutant: the fallback result carries no categories member
FallbackResult_NoCategories ==
  MkObj(<< <<"overallScore">>, <<"summary">>, <<"riskLevel">> >>,
        << MkNum(0),
           Message("The AI analysis could not be completed for this screen. Please try again."),
           Message("High") >>)

\* the fallback AuditResult of a content no stage recovers
FallbackResult ==
  MkObj(<< <<"overallScore">>, <<"summary">>, <<"riskLevel">>, <<"categories">> >>,
        << MkNum(0),
           Message("The AI analysis could not be completed for this screen. Please try again."),
           Message("High"),
           MkArr(<<>>) >>)

\* the request bodies: json is false for a body req.json() rejects; a
\* field is false / "null" when it is missing or empty
AuditBodies ==
  [json : {TRUE}, imageBase64 : BOOLEAN, imageUrl : BOOLEAN,
   personaId : {"null", "solo", "bogus"}]
  \cup {[json |-> FALSE, imageBase64 |-> FALSE, imageUrl |-> FALSE, personaId |-> "null"]}

NoBody == [json |-> FALSE, imageBase64 |-> FALSE, imageUrl |-> FALSE, personaId |-> "null"]

\* mutant: every non-success status of the gateway gives the generic error
GatewayError_Generic(status) == AuditError(500, "AI analysis failed")

\* if (!response.ok): 429, 402, and the generic error for the rest
GatewayError(status) ==
  IF status = 429
  THEN AuditError(429, "Rate limit exceeded. Please try again in a moment.")
  ELSE IF status = 402
  THEN AuditError(402, "AI credits exhausted. Please add funds in Settings -> Workspace -> Usage.")
  ELSE AuditError(500, "AI analysis failed")

\* what tryParseJSON hands to the handler: null when no stage recovered
Returned(r) == IF r.stage = 0 THEN JsNull ELSE r.value

\* if (!auditResult) the fallback, else the parsed value as it is
AuditOutcome(text) ==
  LET auditResult == Returned(tryParseJSON(text)) IN
  IF ~Truthy(auditResult)
  THEN JsonResponse(200, FallbackResult)
  ELSE JsonResponse(200, auditResult)

\* LOVABLE_API_KEY is read and the gateway is called: a missing key is
\* thrown and caught by the outer catch
CallGateway ==
  IF ~auKey'
  THEN /\ auResponse' = AuditCaught("LOVABLE_API_KEY is not configured")
       /\ auPc' = "responded"
       /\ UNCHANGED auRequests
  ELSE /\ auRequests' = Append(auRequests, "POST gateway")
       /\ auPc' = "gateway"
       /\ UNCHANGED auResponse

\* the handler from the arrival of the request to its first await: the
\* request is the one of runAudit, or that of another caller (the
\* multi-screen audit sends imageUrl), or an OPTIONS preflight
auditServe(method, body, key) ==
  /\ auPc = "idle"
  /\ \/ raPc = "invoking" /\ method = "POST" /\ body = auBody
     \/ raPc = "idle" /\ (method = "OPTIONS" => body = NoBody)
  /\ auBody' = body
  /\ auKey' = key
  /\ IF method = "OPTIONS"
     THEN /\ auResponse' = JsonResponse(200, JsNull)
          /\ auPc' = "responded"
          /\ UNCHANGED auRequests
     ELSE IF ~body.json
     THEN /\ auResponse' = AuditCaught("Unexpected end of JSON input")
          /\ auPc' = "responded"
          /\ UNCHANGED auRequests
     ELSE IF ~body.imageBase64 /\ ~body.imageUrl
     THEN /\ auResponse' = AuditError(400, "Either imageBase64 or imageUrl is required")
          /\ auPc' = "responded"
          /\ UNCHANGED auRequests
     ELSE IF body.personaId = "null"
     THEN /\ auResponse' = AuditError(400, "personaId is required")
          /\ auPc' = "responded"
          /\ UNCHANGED auRequests
     ELSE IF body.imageUrl
     THEN /\ auRequests' = Append(auRequests, "HEAD image")
          /\ auPc' = "imageCheck"
          /\ UNCHANGED auResponse
     ELSE CallGateway
  /\ UNCHANGED <<auAnswer, auSanitized>>
  /\ UNCHANGED <<sanVars, auditHookVars, pageVars, retryVars, extractVars, pipeVars>>

\* the HEAD request for the image comes back: not ok ends the request, a
\* rejected fetch is ignored
ImageCheckResponds(outcome) ==
  /\ auPc = "imageCheck"
  /\ UNCHANGED <<auBody, auKey>>
  /\ IF outcome = "gone"
     THEN /\ auResponse' = AuditError(400, "Design image is no longer accessible. Figma image URLs may have expired. Please re-extract the frames.")
          /\ auPc' = "responded"
          /\ UNCHANGED auRequests
     ELSE CallGateway
  /\ UNCHANGED <<auAnswer, auSanitized>>
  /\ UNCHANGED <<sanVars, auditHookVars, pageVars, retryVars, extractVars, pipeVars>>

\* the gateway answers: a is its status (Rejected: fetch threw), whether
\* its body is JSON, and the content of the first choice ("" if none)
GatewayResponds(a) ==
  /\ auPc = "gateway"
  /\ auAnswer' = a
  /\ auPc' = "responded"
  /\ IF a.status = Rejected
     THEN /\ auResponse' = AuditCaught("fetch failed")
          /\ UNCHANGED auSanitized
     ELSE IF ~Ok(a.status)
     THEN /\ auResponse' = GatewayError(a.status)
          /\ UNCHANGED auSanitized
     ELSE IF ~a.json
     THEN /\ auResponse' = AuditCaught("Unexpected token")
          /\ UNCHANGED auSanitized
     ELSE /\ auResponse' = AuditOutcome(a.content)
          /\ auSanitized' = TRUE
  /\ UNCHANGED <<auBody, auKey, auRequests>>
  /\ UNCHANGED <<sanVars, auditHookVars, pageVars, retryVars, extractVars, pipeVars>>

NoAnswer == [status |-> 0, json |-> FALSE, content |-> <<>>]

NoData == JsNull

\* runAudit(imageBase64, personaId, config) up to its await
runAudit(imageBase64, personaId) ==
  /\ raPc = "idle"
  /\ auPc = "idle"
  /\ raLoading' = TRUE
  /\ raError' = JsNull
  /\ raResult' = NoData
  /\ raPc' = "invoking"
  /\ auBody' = [json |-> TRUE, imageBase64 |-> imageBase64, imageUrl |-> FALSE,
                personaId |-> personaId]
  /\ UNCHANGED <<raReturn, auPc, auKey, auRequests, auAnswer, auSanitized, auResponse>>
  /\ UNCHANGED <<sanVars, pageVars, retryVars, extractVars, pipeVars>>

\* String(data.error) as the message of the Error thrown
ThrownMessage(v) == IF v.t = "str" THEN v ELSE MkStr(Stringify(v))

\* runAudit after its await: a non-2xx answer (or no answer) comes as
\* fnError, an error member of the data is thrown, and the catch turns
\* what was thrown into the error state and a null return
AuditResumes(reached) ==
  /\ raPc = "invoking"
  /\ IF reached THEN auPc = "responded" ELSE auPc = "idle"
  /\ IF ~reached
     THEN /\ raError' = Message("Failed to send a request to the Edge Function")
          /\ raReturn' = JsNull
          /\ UNCHANGED raResult
     ELSE IF ~Ok(auResponse.status)
     THEN /\ raError' = Message("Edge Function returned a non-2xx status code")
          /\ raReturn' = JsNull
          /\ UNCHANGED raResult
     ELSE IF Truthy(Member(auResponse.body, "error"))
     THEN /\ raError' = ThrownMessage(Member(auResponse.body, "error"))
          /\ raReturn' = JsNull
          /\ UNCHANGED raResult
     ELSE /\ raResult' = auResponse.body
          /\ raReturn' = auResponse.body
          /\ UNCHANGED raError
  /\ raLoading' = FALSE
  /\ raPc' = "done"
  /\ UNCHANGED <<sanVars, auditVars, pageVars, retryVars, extractVars, pipeVars>>

(* ------------------------------- texts --------------------------------- *)
\* the units the enumerated texts are made of
Alphabet == {"{", "}", "[", "]", ",", ":", QUOTE, "a", "5", "null",
             FENCE, "json", NL, ESC_FENCE}

\* every text of at most MaxTextLen units
ShortTexts == UNION {[1..n -> Alphabet] : n \in 0..MaxTextLen}

\* a string literal of one unit
Lit(u) == <<QUOTE, u, QUOTE>>

\* the text of an object with one member "a"
ObjectText(value) == <<"{">> \o Lit("a") \o <<":">> \o value \o <<"}">>

\* the same with a comma before its closing brace
CommaObjectText(value) == <<"{">> \o Lit("a") \o <<":">> \o value \o <<",", "}">>

\* JSON-like texts: objects, objects with a trailing comma, strings that
\* hold fences, braces and commas before brackets, other JSON values and
\* texts that are not JSON
Cores ==
  { ObjectText(<<"5">>),
    CommaObjectText(<<"5">>),
    <<"{", NL>> \o Lit("a") \o <<":", SP, "5", ",", NL, "}">>,
    CommaObjectText(<<"[", "5", ",", "]">>),
    ObjectText(Lit(ESC_FENCE)),
    ObjectText(Lit(FENCE)),
    ObjectText(Lit(ESC_NL)),
    ObjectText(<<QUOTE, "}", "{", QUOTE>>),
    ObjectText(<<QUOTE, ",", "]", QUOTE>>),
    CommaObjectText(<<QUOTE, ",", "]", QUOTE>>),
    ObjectText(ObjectText(<<"[", "true", ",", "null", "]">>)),
    <<"{">> \o Lit("a") \o <<":", "5", ",">> \o Lit("a") \o <<":", "80.0", "}">>,
    <<"[">> \o ObjectText(<<"5">>) \o <<"]">>,
    ObjectText(<<"5">>) \o ObjectText(<<"0">>),
    <<"{">> \o Lit("a") \o <<":", "5">>,
    <<"{">> \o Lit("a") \o <<"5", "}">>,
    <<"{", "}">>,
    <<"5">>,
    <<"a">> }

\* what the model puts before and after the JSON: nothing, code fences,
\* prose, prose that holds a brace
Prefixes ==
  { <<>>, <<FENCE, "json", NL>>, <<FENCE, NL>>, <<"a", SP>>,
    <<"a", NL, FENCE, "json", NL>>, <<"a", "}", SP>> }

Suffixes ==
  { <<>>, <<NL, FENCE>>, <<SP, "a">>, <<NL, FENCE, NL, "a">>, <<SP, "a", "}">> }

WrappedTexts == {p \o c \o x : p \in Prefixes, c \in Cores, x \in Suffixes}

Texts == ShortTexts \cup WrappedTexts

\* tryParseJSON(content) is called
Sanitize ==
  /\ sanPc = "input"
  /\ sanResult' = tryParseJSON(rawText)
  /\ sanPc' = "parsed"
  /\ UNCHANGED <<rawText, serialized, sanResult2>>
  /\ UNCHANGED <<auditVars, auditHookVars, pageVars, retryVars, extractVars, pipeVars>>

\* the value returned is serialised and passed through tryParseJSON again
Reserialize ==
  /\ sanPc = "parsed"
  /\ sanResult.stage # 0
  /\ serialized' = Stringify(sanResult.value)
  /\ sanResult2' = tryParseJSON(serialized')
  /\ sanPc' = "reparsed"
  /\ UNCHANGED <<rawText, sanResult>>
  /\ UNCHANGED <<auditVars, auditHookVars, pageVars, retryVars, extractVars, pipeVars>>

\* the text of an audit object
AuditText(score, risk) ==
  <<"{">> \o Lit("overallScore") \o <<":", score, ",">>
  \o Lit("summary") \o <<":">> \o Lit("a") \o <<",">>
  \o Lit("riskLevel") \o <<":">> \o Lit(risk) \o <<",">>
  \o Lit("categories") \o <<":", "[", "]", "}">>

\* the contents of the first choice of a gateway answer
AuditContents ==
  { <<>>, <<"a">>, <<"5">>, <<"0">>, <<"true">>, <<"null">>, <<"{", "}">>,
    <<"[", "5", "]">>,
    AuditText("80", "Low"),
    AuditText("101", "High"),
    AuditText("80", "a"),
    <<FENCE, "json", NL>> \o AuditText("80", "Medium") \o <<NL, FENCE, NL, "a">>,
    <<"{">> \o Lit("error") \o <<":">> \o Lit("a") \o <<"}">>,
    <<"{">> \o Lit("overallScore") \o <<":", "80", ",", "}">>,
    <<"{">> \o Lit("overallScore") \o <<":", "80">> }

GatewayStatuses == {200, 402, 429, 500, 503, Rejected}

GatewayAnswers ==
  {[status |-> st, json |-> FALSE, content |-> <<>>] : st \in GatewayStatuses}
  \cup {[status |-> 200, json |-> TRUE, content |-> c] : c \in AuditContents \cup WrappedTexts}

(* --------------------------- specifications ---------------------------- *)
InitPage ==
  /\ step = "persona"
  /\ selectedPersona = "null"
  /\ isMultiScreen = FALSE
  /\ figmaFrames = <<>>
  /\ screenResults = <<>>
  /\ completedScreens = 0
  /\ isLoading = FALSE
  /\ error = "null"
  /\ numRuns = 0
  /\ runs = [r \in RunIds |-> NoRun]
  /\ hung = {}

InitRetry ==
  /\ fwVariant = "exp2s"
  /\ fwUrl = "files"
  /\ fwHeaders = "figmaHeaders"
  /\ fwMaxRetries = 3
  /\ fwPc = "idle"
  /\ fwAttempt = 0
  /\ fwRequests = <<>>
  /\ fwResponses = <<>>
  /\ fwWaits = <<>>
  /\ fwResult = 0
  /\ upstream = NoUpstream

InitExtract ==
  /\ tree = [p \in {<<>>} |-> "DOCUMENT"]
  /\ exPc = "input"
  /\ extracted = <<>>

InitPipe ==
  /\ ffPc = "idle"
  /\ ffUrl = <<>>
  /\ figmaLoading = FALSE
  /\ figmaError = "null"
  /\ hookFrames = <<>>
  /\ hVariant = "deployed"
  /\ plPc = "idle"
  /\ allFrames = <<>>
  /\ framesToExport = <<>>
  /\ allImages = EmptyImages
  /\ loopI = 0
  /\ exportRequests = <<>>
  /\ lastAnswer = 0
  /\ resolved = {}
  /\ exportLimited = FALSE
  /\ inFlight = {}
  /\ response = NoResponse

InitSan ==
  /\ sanPc = "input"
  /\ sanResult = NotRecovered(<<>>)
  /\ serialized = <<>>
  /\ sanResult2 = NotRecovered(<<>>)

InitAudit ==
  /\ auPc = "idle"
  /\ auBody = NoBody
  /\ auKey = TRUE
  /\ auRequests = <<>>
  /\ auAnswer = NoAnswer
  /\ auSanitized = FALSE
  /\ auResponse = NoAuditResponse
  /\ raPc = "idle"
  /\ raLoading = FALSE
  /\ raError = JsNull
  /\ raResult = NoData
  /\ raReturn = NoData

InitAi ==
  /\ rawText = <<>>
  /\ InitSan
  /\ InitAudit

\* the page as deployed; its events are the user's clicks and the answers
\* of the audit requests
Init ==
  /\ InitPage
  /\ concurrency = CONCURRENCY
  /\ InitRetry
  /\ InitExtract
  /\ InitPipe
  /\ InitAi

\* frames handed to the dispatcher so far
RECURSIVE FramesStarted(_)
FramesStarted(r) == IF r = 0 THEN 0 ELSE runs[r].n + FramesStarted(r - 1)

\* the config screen starts a run only with a non-empty frame list
\* (canStartFigma)
Next ==
  \/ handlePersonaSelect
  \/ handleBack
  \/ \E n \in 1..(MaxPageFrames - FramesStarted(numRuns)) : handleFigmaStart(n)
  \/ handleRestart
  \/ \E r \in RunIds : \E i \in 0..(MaxPageFrames - 1) : \E o \in Outcomes : AuditResponse(r, i, o)

Spec == Init /\ [][Next]_vars

\* the dispatcher on its own: one call with any frame count and any worker
\* count, every promise continuation a step of its own
InitDispatch ==
  /\ InitPage
  /\ concurrency \in 1..MaxConc
  /\ InitRetry
  /\ InitExtract
  /\ InitPipe
  /\ InitAi

NextDispatch ==
  \/ handlePersonaSelect
  \/ numRuns = 0 /\ \E n \in 0..MaxFrames : handleFigmaStart(n)
  \/ \E i \in 0..(MaxFrames - 1) : \E o \in Outcomes : Settle(1, i, o)
  \/ \E w \in 1..MaxConc : Resume(1, w)
  \/ Finish(1)

SpecDispatch == InitDispatch /\ [][NextDispatch]_vars

\* no invocation of the callback has thrown in run r
NoThrowYet(r) ==
  \A i \in DOMAIN runs[r].task :
    Len(runs[r].calls[i]) <= 1 /\ runs[r].task[i] # "rejected"
      /\ (runs[r].task[i] = "consumed" => runs[r].results[i] # "empty")

\* a request that is not stuck answers in the end
Answers == \E i \in 0..(MaxFrames - 1) : \E o \in Outcomes : Settle(1, i, o)

\* a worker whose task has settled is resumed
Resumes == \E w \in 1..MaxConc : Resume(1, w)

\* the dispatcher when every audit request answers in the end and the event
\* loop runs the continuations that are ready
SpecSettle ==
  /\ InitDispatch
  /\ [][NextDispatch]_vars
  /\ WF_vars(Answers)
  /\ WF_vars(Resumes)
  /\ WF_vars(Finish(1))

\* the dispatcher called with an onScreenComplete that throws for at most
\* one frame of the run
NextCallback ==
  \/ NextDispatch
  \/ /\ numRuns = 1
     /\ NoThrowYet(1)
     /\ \E i \in 0..(MaxFrames - 1) : \E o \in Outcomes : \E secondThrows \in BOOLEAN :
          SettleCb(1, i, o, secondThrows)

SpecCallback == InitDispatch /\ [][NextCallback]_vars

\* the dispatcher with at most one request that never answers; every other
\* request answers in the end and the event loop runs every continuation
\* that is ready
NextLive ==
  \/ handlePersonaSelect
  \/ numRuns = 0 /\ \E n \in 0..MaxLiveFrames : handleFigmaStart(n)
  \/ \E i \in 0..(MaxLiveFrames - 1) : \E o \in Outcomes : Settle(1, i, o)
  \/ \E w \in 1..MaxConc : Resume(1, w)
  \/ Finish(1)
  \/ \E i \in 0..(MaxLiveFrames - 1) : Hang(1, i)

SpecLive ==
  /\ InitDispatch
  /\ [][NextLive]_vars
  /\ WF_vars(Answers)
  /\ WF_vars(Resumes)
  /\ WF_vars(Finish(1))

\* one call of fetchWithRetry with any url, any maxRetries and any sequence
\* of answers
NextRetry ==
  \/ \E v \in Variants : \E u \in Urls : \E m \in 0..MaxRetryArg : fetchWithRetry(v, u, m)
  \/ \E st \in Statuses : FetchResponds(st)
  \/ FetchThrows
  \/ DelayElapses

SpecRetry == Init /\ [][NextRetry]_vars

\* one call of any of the three fetchWithRetry of the repository
NextRetryAll ==
  \/ \E v \in AllVariants : \E u \in Urls : \E m \in 0..MaxRetryArg : fetchWithRetry(v, u, m)
  \/ \E st \in Statuses : \E ra \in RetryAfterHeaders : FetchRespondsWith(st, ra)
  \/ FetchThrows
  \/ DelayElapses

SpecRetryAll == Init /\ [][NextRetryAll]_vars

\* one call of extractFrames on any tree of at most MaxNodes nodes, or on
\* the tree of Scenario A
InitTrees ==
  /\ InitPage
  /\ concurrency = CONCURRENCY
  /\ InitRetry
  /\ tree \in {[p \in {<<>>} |-> ty] : ty \in NodeTypes} \cup {ScenarioA}
  /\ exPc = "input"
  /\ extracted = <<>>
  /\ InitPipe
  /\ InitAi

NextExtract ==
  \/ \E p \in DOMAIN tree : \E ty \in NodeTypes : AddChild(p, ty)
  \/ ExtractFrames

SpecExtract == InitTrees /\ [][NextExtract]_vars

\* what the awaited file-tree call can come back with
FileStatuses == Statuses \cup {404, Rejected}

\* the design files the provider holds under SpecPipeline
Files ==
  {FileTree(pages, children, group) :
     pages \in 0..MaxPages, children \in 0..MaxPageChildren, group \in 0..1}
    \cup {ScenarioA}

\* one call of fetchFrames, or one preflight, served by any of the four
\* handlers over any of the files, with any answers of the provider
InitPipeline ==
  /\ InitPage
  /\ concurrency = CONCURRENCY
  /\ InitRetry
  /\ tree \in Files
  /\ exPc = "input"
  /\ extracted = <<>>
  /\ InitPipe
  /\ InitAi

NextPipeline ==
  \/ \E u \in FigmaUrls : fetchFrames(u)
  \/ \E hv \in HandlerNames : \E m \in {"OPTIONS", "POST"} : \E u \in FigmaUrls :
       \E token \in BOOLEAN : serve(hv, m, u, token)
  \/ \E st \in FileStatuses : FileResponds(st)
  \/ ExportDelayElapses
  \/ plPc = "singleShot" /\ \E a \in ExportAnswers(framesToExport) : SingleShotResponds(a)
  \/ plPc = "batch" /\ \E a \in ExportAnswers(Batch(Handler(hVariant), framesToExport, loopI)) :
       BatchResponds(a)
  \/ BatchDelayElapses
  \/ ItemDelayElapses
  \/ plPc = "item" /\ \E a \in ExportAnswers(<< framesToExport[loopI + 1] >>) : ItemResponds(a)
  \/ FetchFramesResumes

SpecPipeline == InitPipeline /\ [][NextPipeline]_vars

\* maxRetries = 3, the default every call of the deployed handler uses
DefaultMaxRetries == 3

\* the calls of fetchWithRetry the handler has made up to its current await
IssuedCalls == 1 + Len(exportRequests)

\* await fetchWithRetry(url, figmaHeaders) of the deployed handler (file
\* call, single-shot call, batch call): the call the handler waits for
\* starts and sends its first request
UpstreamCall ==
  /\ hVariant = "deployed"
  /\ plPc \in {"fileFetch", "singleShot", "batch"}
  /\ upstream.calls < IssuedCalls
  /\ fwPc \in {"idle", "returned", "threw"}
  /\ LET url == IF plPc = "fileFetch" THEN "files" ELSE "images" IN
     /\ fwVariant' = "exp2s"
     /\ fwUrl' = url
     /\ fwHeaders' = "figmaHeaders"
     /\ fwMaxRetries' = DefaultMaxRetries
     /\ fwAttempt' = 0
     /\ fwRequests' = << FetchRequest(url, "figmaHeaders") >>
     /\ fwResponses' = <<>>
     /\ fwWaits' = <<>>
     /\ fwResult' = 0
     /\ fwPc' = IF LoopCondition("exp2s", 0, DefaultMaxRetries) THEN "fetch" ELSE "postLoopFetch"
     /\ upstream' = Sent([upstream EXCEPT !.calls = @ + 1], url)
  /\ UNCHANGED <<pageVars, extractVars, pipeVars, aiVars>>

\* the call the handler waits for is over
CallEnded == upstream.calls = IssuedCalls /\ fwPc \in {"returned", "threw"}

\* what the handler gets back from it: the status returned, or a rejection
FinalStatus == IF fwPc = "threw" THEN Rejected ELSE fwResult

\* an ok export answer in which every image was rendered
FullAnswers(ids) ==
  {a \in ExportAnswers(ids) : Ok(a.status) => \A id \in DOMAIN a.images : a.images[id] = "http"}

\* the files of one and of MaxPages pages
BoundedFiles ==
  {FileTree(pages, children, 0) : pages \in {1, MaxPages}, children \in 0..MaxPageChildren}

\* one extraction request served by the deployed handler, every call of
\* fetchWithRetry carried out request by request
InitBounded ==
  /\ InitPage
  /\ concurrency = CONCURRENCY
  /\ InitRetry
  /\ tree \in BoundedFiles
  /\ exPc = "input"
  /\ extracted = <<>>
  /\ InitPipe
  /\ InitAi

NextBounded ==
  \/ \E u \in FigmaUrls : fetchFrames(u)
  \/ \E u \in FigmaUrls : \E token \in BOOLEAN : serve("deployed", "POST", u, token)
  \/ UpstreamCall
  \/ upstream.calls >= 1 /\ \E st \in {200, 429, 500} : FetchResponds(st)
  \/ upstream.calls >= 1 /\ FetchThrows
  \/ upstream.calls >= 1 /\ DelayElapses
  \/ CallEnded /\ FileResponds(FinalStatus)
  \/ ExportDelayElapses
  \/ CallEnded /\ plPc = "singleShot" /\
       \E a \in FullAnswers(framesToExport) : a.status = FinalStatus /\ SingleShotResponds(a)
  \/ CallEnded /\ plPc = "batch" /\
       \E a \in FullAnswers(Batch(Handler(hVariant), framesToExport, loopI)) :
         a.status = FinalStatus /\ BatchResponds(a)
  \/ BatchDelayElapses
  \/ FetchFramesResumes

\* each request returns (answers or rejects), every timer fires and the
\* runtime runs the continuation that is ready
SpecBounded == InitBounded /\ [][NextBounded]_vars /\ WF_vars(NextBounded)

\* the sanitizer applied to one text, and its result passed through again
InitSanitize ==
  /\ InitPage
  /\ concurrency = CONCURRENCY
  /\ InitRetry
  /\ InitExtract
  /\ InitPipe
  /\ rawText \in Texts
  /\ InitSan
  /\ InitAudit

NextSanitize ==
  \/ Sanitize
  \/ Reserialize

SpecSanitize == InitSanitize /\ [][NextSanitize]_vars

\* one request to the audit-design handler, from runAudit or another caller
InitAuditHandler ==
  /\ InitPage
  /\ concurrency = CONCURRENCY
  /\ InitRetry
  /\ InitExtract
  /\ InitPipe
  /\ InitAi

NextAudit ==
  \/ \E img \in BOOLEAN : \E p \in {"null", "solo"} : runAudit(img, p)
  \/ \E m \in {"OPTIONS", "POST"} : \E b \in AuditBodies : \E key \in BOOLEAN :
       auditServe(m, b, key)
  \/ \E o \in {"ok", "gone", "throws"} : ImageCheckResponds(o)
  \/ \E a \in GatewayAnswers : GatewayResponds(a)
  \/ \E reached \in BOOLEAN : AuditResumes(reached)

SpecAudit == InitAuditHandler /\ [][NextAudit]_vars

(* ======================= properties of the dispatcher ================== *)
Started == 1..numRuns

Indices(r) == 0..(runs[r].n - 1)

\* the audit of frame i of run r has settled
Settled(r, i) == runs[r].task[i] \in {"fulfilled", "rejected", "consumed"}

AllSettled(r) == \A i \in Indices(r) : Settled(r, i)

\* number of onScreenComplete invocations of run r for index i
CallCount(r, i) == Len(runs[r].calls[i])

\* number of onScreenComplete invocations of run r
TotalCalls(r) ==
  LET RECURSIVE Sum(_)
      Sum(k) == IF k < 0 THEN 0 ELSE CallCount(r, k) + Sum(k - 1)
  IN Sum(runs[r].n - 1)

\* number of audits of run r whose request is out
InFlight(r) == Cardinality({i \in Indices(r) : runs[r].task[i] = "pending"})

\* C1 - Dispatcher completeness: onScreenComplete is invoked once for an
\* index when its audit settles and never otherwise, so that once every
\* audit of a run has settled there have been exactly N invocations, one
\* for each index 0..N-1, whatever the answers were and whatever the worker
\* count.
C1_Completeness ==
  \A r \in Started :
    /\ DOMAIN runs[r].calls = Indices(r)
    /\ \A i \in Indices(r) :
         /\ CallCount(r, i) = (IF Settled(r, i) THEN 1 ELSE 0)
         /\ \A k \in 1..CallCount(r, i) : runs[r].calls[i][k].screenName = <<r, i>>
    /\ AllSettled(r) =>
         /\ TotalCalls(r) = runs[r].n
         /\ \A i \in Indices(r) : CallCount(r, i) = 1

\* five frames, two workers, all settled, some audits failed and some not
C1_Witness ==
  \E r \in Started :
    /\ runs[r].n = 5 /\ concurrency = 2 /\ AllSettled(r)
    /\ \E i, j \in Indices(r) : runs[r].outcome[i] = "ok" /\ runs[r].outcome[j] = "failed"
    /\ TotalCalls(r) = 5

\* C2 - every index is claimed by one worker only and its task is started
\* once; the claimed indices are 0..nextIndex-1 with none skipped, all of
\* 0..N-1 once the run has resolved; a worker writes results[i] only for an
\* index i it claimed, and no slot is written by two workers.
C2_ClaimOnce ==
  \A r \in Started :
    LET log == runs[r].claimLog IN
    /\ \A k, l \in 1..Len(log) : log[k].index = log[l].index => k = l
    /\ {log[k].index : k \in 1..Len(log)} = 0..(runs[r].nextIndex - 1)
    /\ runs[r].nextIndex <= runs[r].n
    /\ \A i \in Indices(r) : (runs[r].task[i] # "unstarted") <=> (i < runs[r].nextIndex)
    /\ runs[r].status = "resolved" => runs[r].nextIndex = runs[r].n
    /\ \A wr \in runs[r].writeLog :
         \E k \in 1..Len(log) : log[k].worker = wr[1] /\ log[k].index = wr[2]
    /\ \A i \in Indices(r) :
         (runs[r].results[i] # "empty") <=> (\E wr \in runs[r].writeLog : wr[2] = i)

\* a resolved run of five frames in which one worker has claimed and written
\* at least two indices
C2_Witness ==
  \E r \in Started :
    /\ runs[r].n = 5 /\ runs[r].status = "resolved"
    /\ \E wr1, wr2 \in runs[r].writeLog : wr1[1] = wr2[1] /\ wr1[2] # wr2[2]
    /\ Cardinality(runs[r].writeLog) = 5

\* C3 - Dispatcher isolation: a failed audit is reported with a null result
\* and an error message, a successful one with a result and no error; no
\* worker is rejected or returns while indices are left, so every frame is
\* reported; with 5 frames, 3 workers and only frame #2 failing there are 5
\* callbacks and only that of #2 carries an error.
C3_Isolation ==
  \A r \in Started :
    LET calls == runs[r].calls IN
    /\ \A i \in Indices(r) : \A k \in 1..Len(calls[i]) :
         /\ runs[r].outcome[i] = "ok" =>
              calls[i][k].result = "audit" /\ calls[i][k].error = "undefined"
         /\ runs[r].outcome[i] = "failed" =>
              calls[i][k].result = "null" /\ calls[i][k].error # "undefined"
    /\ \A w \in DOMAIN runs[r].workers :
         /\ runs[r].workers[w].pc # "rejected"
         /\ runs[r].workers[w].pc = "done" => runs[r].nextIndex >= runs[r].n
    /\ runs[r].status # "rejected"
    /\ \A i \in Indices(r) :
         (AllSettled(r) /\ runs[r].outcome[i] = "ok") =>
           \E k \in 1..Len(calls[i]) : calls[i][k].result = "audit"
    /\ ( /\ runs[r].n = 5 /\ concurrency = 3 /\ AllSettled(r)
         /\ \A i \in Indices(r) : runs[r].outcome[i] = (IF i = 2 THEN "failed" ELSE "ok") )
       => /\ TotalCalls(r) = 5
          /\ \A i \in Indices(r) :
               /\ Len(calls[i]) = 1
               /\ (calls[i][1].error # "undefined") <=> (i = 2)
               /\ (calls[i][1].result = "null") <=> (i = 2)

\* 5 frames, 3 workers, frame #2 failed, the others succeeded, run resolved
C3_Witness ==
  \E r \in Started :
    /\ runs[r].n = 5 /\ concurrency = 3 /\ runs[r].status = "resolved"
    /\ \A i \in Indices(r) : runs[r].outcome[i] = (IF i = 2 THEN "failed" ELSE "ok")
    /\ \E w \in DOMAIN runs[r].workers :
         \E k, l \in 1..Len(runs[r].claimLog) :
           /\ runs[r].claimLog[k].worker = w /\ runs[r].claimLog[k].index = 2
           /\ runs[r].claimLog[l].worker = w /\ runs[r].claimLog[l].index > 2

\* C4 - Concurrency cap: a run has exactly min(C, N) workers and at no time
\* more than C audits in flight (started and not yet taken back by their
\* worker).
C4_Cap ==
  \A r \in Started :
    /\ Len(runs[r].workers) = (IF concurrency <= runs[r].n THEN concurrency ELSE runs[r].n)
    /\ InFlight(r) <= concurrency
    /\ Cardinality({i \in Indices(r) : runs[r].task[i] \in {"pending", "fulfilled", "rejected"}})
         <= concurrency

\* the cap binds: C audits in flight while frames are still unclaimed
C4_Witness ==
  \E r \in Started :
    /\ runs[r].n > concurrency
    /\ InFlight(r) = concurrency
    /\ runs[r].nextIndex > concurrency
    /\ runs[r].nextIndex < runs[r].n

\* every frame of run 1 but the hung one has had its callback
OthersReported ==
  /\ numRuns >= 1
  /\ \A i \in Indices(1) : <<1, i>> \in hung \/ CallCount(1, i) = 1

\* C5 - a stuck item does not block the others: with at least two workers
\* and at most one audit that never settles, every other frame of the run
\* is eventually audited and reported.
C5_NoBlocking == (numRuns >= 1 /\ concurrency >= 2) ~> OthersReported

\* one audit hangs, frames claimed after it have been reported
C5_Witness ==
  /\ numRuns >= 1 /\ concurrency >= 2 /\ runs[1].n >= 4
  /\ \E i \in Indices(1) : <<1, i>> \in hung /\ i < runs[1].n - 2
  /\ OthersReported

(* ========================= properties of the page ====================== *)
\* a slot as handleFigmaStart creates it
LoadingSlot(s) == s.isLoading /\ s.result = "null" /\ s.error = "undefined"

\* a slot after its audit has settled
SettledSlot(s) ==
  /\ ~s.isLoading
  /\ \/ s.result = "audit" /\ s.error = "undefined"
     \/ s.result = "null" /\ s.error \notin {"undefined", "null"}

\* C6 - ScreenAuditResult lifecycle: while a multi-screen run is shown,
\* every slot is loading or settled; a loading slot stays as it is or
\* becomes settled, and a settled slot never changes again.
C6_LifecycleStep ==
  (step = "results" /\ step' = "results" /\ numRuns' = numRuns) =>
    \A k \in 1..Min(Len(screenResults), Len(screenResults')) :
         /\ LoadingSlot(screenResults[k]) \/ SettledSlot(screenResults[k])
         /\ LoadingSlot(screenResults[k]) =>
              screenResults'[k] = screenResults[k] \/ SettledSlot(screenResults'[k])
         /\ SettledSlot(screenResults[k]) => screenResults'[k] = screenResults[k]

C6_Lifecycle == [][C6_LifecycleStep]_vars

(* ======================= properties of fetchWithRetry ================== *)
\* C7 - fetchWithRetry retries on 429 only: every response that was
\* followed by a wait or another request was a 429; a response with any
\* other status, on whatever attempt, is what the call returns, with no
\* wait and no request after it; every request carries the url and the
\* headers of the call.
C7_RetryOnly429 ==
  /\ \A k \in 1..Len(fwRequests) : fwRequests[k] = [url |-> fwUrl, headers |-> fwHeaders]
  /\ \A k \in 1..(Len(fwResponses) - 1) : fwResponses[k] = 429
  /\ Len(fwWaits) <= Cardinality({k \in 1..Len(fwResponses) : fwResponses[k] = 429})
  /\ (Len(fwResponses) >= 1 /\ fwResponses[Len(fwResponses)] # 429) =>
       /\ fwPc = "returned"
       /\ fwResult = fwResponses[Len(fwResponses)]
       /\ Len(fwRequests) = Len(fwResponses)
       /\ Len(fwWaits) = Len(fwResponses) - 1

\* an error status other than 429 on a retry is returned as it is
C7_Witness ==
  /\ fwPc = "returned" /\ fwResult = 500
  /\ fwResponses = <<429, 429, 500>> /\ Len(fwRequests) = 3 /\ fwMaxRetries = 3

\* C8 - when every attempt up to maxRetries answers 429, fetchWithRetry
\* returns the response of the final attempt (429) as a value: it does not
\* throw, it issues no request after the loop, and it never issues more
\* than maxRetries + 1 requests.
C8_Final429Returned ==
  /\ Len(fwRequests) <= fwMaxRetries + 1
  /\ fwPc # "postLoopFetch"
  /\ (Len(fwResponses) = fwMaxRetries + 1 /\ \A k \in 1..Len(fwResponses) : fwResponses[k] = 429) =>
       /\ fwPc = "returned"
       /\ fwResult = 429
       /\ Len(fwRequests) = fwMaxRetries + 1
  /\ fwPc = "threw" => Len(fwResponses) < Len(fwRequests)

\* four answers 429 with the default maxRetries = 3 of the deployed handler
C8_Witness ==
  /\ fwVariant = "exp2s" /\ fwMaxRetries = 3
  /\ fwResponses = <<429, 429, 429, 429>>
  /\ fwPc = "returned" /\ fwResult = 429

\* 1000 doubled k times
RECURSIVE Doubled(_)
Doubled(k) == IF k = 0 THEN 1000 ELSE 2 * Doubled(k - 1)

RECURSIVE SumSeq(_)
SumSeq(q) == IF q = <<>> THEN 0 ELSE Head(q) + SumSeq(Tail(q))

\* C9 - in the deployed fetchWithRetry the wait after the 429 of attempt k
\* (k < maxRetries) is 2^(k+1) * 1000 ms whatever the url and the earlier
\* answers; there are as many waits as 429 answers on attempts before the
\* final one, so none after the final attempt; with maxRetries = 3 and four
\* answers 429 the waits are 2000, 4000, 8000 ms, 14000 ms in all.
C9_Backoff ==
  fwVariant = "exp2s" =>
    /\ \A k \in 1..Len(fwWaits) : fwWaits[k] = Doubled(k)
    /\ Len(fwWaits) =
         Cardinality({k \in 1..Len(fwResponses) : fwResponses[k] = 429 /\ k <= fwMaxRetries})
    /\ Len(fwWaits) <= fwMaxRetries
    /\ (fwMaxRetries = 3 /\ fwResponses = <<429, 429, 429, 429>>) =>
         /\ fwWaits = <<2000, 4000, 8000>>
         /\ SumSeq(fwWaits) = 14000
         /\ fwPc = "returned"

\* persistent 429 with maxRetries = 3: three waits, the call has returned
C9_Witness ==
  /\ fwVariant = "exp2s" /\ fwMaxRetries = 3 /\ fwPc = "returned"
  /\ Len(fwResponses) = 4 /\ Len(fwWaits) = 3 /\ SumSeq(fwWaits) = 14000

(* ======================= properties of extractFrames =================== *)
IsPrefix(q, p) == Len(q) <= Len(p) /\ SubSeq(p, 1, Len(q)) = q

Parent(p) == SubSeq(p, 1, Len(p) - 1)

\* a page: a CANVAS node that is not itself inside a CANVAS
IsPage(t, q) ==
  /\ t[q] = "CANVAS"
  /\ \A a \in DOMAIN t : (IsPrefix(a, q) /\ a # q) => t[a] # "CANVAS"

\* C10 - Extraction depth invariant: extractFrames returns, each once,
\* exactly the direct children of pages whose type is FRAME, COMPONENT,
\* COMPONENT_SET or SECTION; a node two or more levels below a CANVAS is
\* never returned whatever its type; the tree of Scenario A gives 6
\* descriptors.
C10_DepthInvariant ==
  exPc = "done" =>
    /\ {extracted[k] : k \in 1..Len(extracted)} =
         {p \in DOMAIN tree : /\ p # <<>>
                              /\ IsPage(tree, Parent(p))
                              /\ tree[p] \in {"FRAME", "COMPONENT", "COMPONENT_SET", "SECTION"}}
    /\ \A k, l \in 1..Len(extracted) : extracted[k] = extracted[l] => k = l
    /\ \A k \in 1..Len(extracted) : \A q \in DOMAIN tree :
         (tree[q] = "CANVAS" /\ IsPrefix(q, extracted[k])) => Len(extracted[k]) = Len(q) + 1
    /\ tree = ScenarioA => Len(extracted) = 6

\* Scenario A has been extracted: 6 descriptors, the nested component is
\* not among them
C10_Witness ==
  /\ exPc = "done" /\ tree = ScenarioA
  /\ Len(extracted) = 6
  /\ \A k \in 1..Len(extracted) : extracted[k] # <<1, 1, 1>>

(* ================= properties of the fetch-figma-frames handler ======== *)
\* p comes before q in the document: depth-first, a node before its children
RECURSIVE DocBefore(_, _)
DocBefore(p, q) ==
  IF p = <<>> THEN q # <<>>
  ELSE IF q = <<>> THEN FALSE
  ELSE IF Head(p) # Head(q) THEN Head(p) < Head(q)
  ELSE DocBefore(Tail(p), Tail(q))

\* every id comes before the next one (DocBefore is transitive)
InDocOrder(ids) == \A a \in 1..(Len(ids) - 1) : DocBefore(ids[a], ids[a + 1])

RECURSIVE IsSubsequence(_, _)
IsSubsequence(s, t) ==
  IF s = <<>> THEN TRUE
  ELSE IF t = <<>> THEN FALSE
  ELSE IF Head(s) = Head(t) THEN IsSubsequence(Tail(s), Tail(t))
  ELSE IsSubsequence(s, Tail(t))

Responded == plPc = "responded"

Success == Responded /\ IsSuccess(response)

Failure == Responded /\ IsError(response)

\* the file-tree call came back ok and the pages have been extracted
FileFetched == plPc \notin {"idle", "fileFetch"} /\ (Responded => exportRequests # <<>>)

FrameIds(frs) == [k \in 1..Len(frs) |-> frs[k].id]

\* the cap of the handler that serves the request
CAP == Handler(hVariant).cap

FirstCap(all) == [k \in 1..Min(CAP, Len(all)) |-> all[k]]

\* the exportable children of the pages of the file: the T of the claims
TopLevelFrames ==
  {p \in DOMAIN tree : Len(p) = 2 /\ tree[<<p[1]>>] = "CANVAS" /\ Exportable(tree[p])}

\* the state in which the request arrives: the file is the input
Arrived == plPc = "idle" /\ ffPc = "idle"

\* the file-tree call came back ok, the pages have been extracted and no
\* export call has been answered yet (or none will be made)
JustExtracted ==
  /\ lastAnswer = 200
  /\ \/ Responded /\ exportRequests = <<>>
     \/ plPc \in {"exportDelay", "singleShot", "batch", "itemDelay", "item"}
          /\ loopI = 0 /\ DOMAIN allImages = {}

\* C11: extractFrames returns the frames of a page in document order
\* (checked for every page of every file, in the state in which the request
\* arrives); the frame list of the pipeline is in document order over all
\* pages and, when it has just been built, holds the frames of every page
\* in that order; and the frame ids of a success payload are a subsequence,
\* in the same order, of the first CAP frames extracted.
C11_OrderPreserved ==
  /\ Arrived =>
       \A k \in 1..NumChildren(tree, <<>>) : InDocOrder(extractFrames(tree, <<k>>))
  /\ InDocOrder(allFrames)
  /\ JustExtracted =>
       /\ Len(allFrames) = Cardinality(TopLevelFrames)
       /\ \A k \in 1..NumChildren(tree, <<>>) :
            IsSubsequence(extractFrames(tree, <<k>>), allFrames)
  /\ Success => /\ IsSubsequence(FrameIds(response.body.frames), FirstCap(allFrames))
                /\ InDocOrder(FrameIds(response.body.frames))

\* a capped file of several pages was exported through the batched
\* fallback and one of its frames was dropped
C11_Witness ==
  /\ Success
  /\ NumChildren(tree, <<>>) >= 2
  /\ Len(allFrames) > CAP
  /\ Len(exportRequests) > 1
  /\ Len(response.body.frames) = CAP - 1

\* the ids named by the export requests issued so far
NamedIds == UNION {Range(exportRequests[k]) : k \in 1..Len(exportRequests)}

\* C12: CAP is 12 in the deployed handler and 8, 10 and 20 in the
\* variants; a success payload has exportedFrames <= min(T, CAP) for the T
\* frames of the file; no export request names more than CAP ids, and all
\* export requests together name at most CAP different ids.
C12_CapInvariant ==
  /\ CAP = CASE hVariant = "deployed" -> 12
             [] hVariant = "sequential" -> 8
             [] hVariant = "singleShot" -> 10
             [] hVariant = "batched" -> 20
  /\ Success => /\ response.body.exportedFrames <= Min(Cardinality(TopLevelFrames), CAP)
                /\ Len(response.body.frames) <= Min(Cardinality(TopLevelFrames), CAP)
  /\ \A k \in 1..Len(exportRequests) : Len(exportRequests[k]) <= CAP
  /\ Cardinality(NamedIds) <= CAP

\* a file of more than 20 frames went through the handler with cap 20 and
\* every capped frame was exported
C12_Witness ==
  /\ Success
  /\ hVariant = "batched"
  /\ Cardinality(TopLevelFrames) > CAP
  /\ response.body.exportedFrames = CAP
  /\ Cardinality(NamedIds) = CAP

\* C13: in every success payload totalFrames is the number of frames
\* extracted before the cap was applied and exportedFrames is frames.length.
C13_Counts ==
  Success => /\ response.body.totalFrames = Len(allFrames)
             /\ response.body.totalFrames = Cardinality(TopLevelFrames)
             /\ response.body.exportedFrames = Len(response.body.frames)

\* the deployed handler answered for a file above its cap with fewer
\* frames than the cap: the three numbers differ
C13_Witness ==
  /\ Success
  /\ hVariant = "deployed"
  /\ response.body.totalFrames > CAP
  /\ Len(framesToExport) = CAP
  /\ response.body.exportedFrames < CAP
  /\ response.body.exportedFrames > 0

\* C14: a capped frame is in the success payload exactly if an ok export
\* answer held a non-null image URL for its id; every returned frame has a
\* non-null imageUrl and an id of the capped list; and a frame without an
\* image raises no error: once export calls were made, the deployed and the
\* batch handlers fail only on a rate-limited or rejected call (the
\* sequential variant only when no frame at all was resolved).
C14_ResolvedOnly ==
  /\ Success =>
       /\ \A k \in 1..Len(framesToExport) :
            (framesToExport[k] \in Range(FrameIds(response.body.frames)))
              <=> (framesToExport[k] \in resolved)
       /\ \A k \in 1..Len(response.body.frames) :
            /\ response.body.frames[k].imageUrl # "null"
            /\ response.body.frames[k].id \in Range(FirstCap(allFrames))
  /\ (Failure /\ exportRequests # <<>>) =>
       IF hVariant = "sequential" THEN resolved = {}
       ELSE lastAnswer \in {429, Rejected}

\* the deployed handler returned some frames and dropped others
C14_Witness ==
  /\ Success
  /\ hVariant = "deployed"
  /\ resolved # {}
  /\ Range(framesToExport) \ resolved # {}
  /\ Len(response.body.frames) = Cardinality(resolved)

\* C15: when the file tree yields zero frames, the file answer ends the
\* request with the 400 'No frames found' error payload; there is never a
\* success payload and no image-export request is issued.
C15_NoFramesError ==
  Cardinality(TopLevelFrames) = 0 =>
    /\ exportRequests = <<>>
    /\ ~Success
    /\ plPc \in {"idle", "fileFetch", "responded"}
    /\ (Responded /\ lastAnswer = 200) =>
         response = [status |-> 400, body |-> [error |-> "No frames found in this Figma file."]]

\* a file whose pages hold only a group (with a frame inside) was fetched
C15_Witness ==
  /\ Responded /\ lastAnswer = 200
  /\ Cardinality(TopLevelFrames) = 0
  /\ NumChildren(tree, <<>>) >= 2
  /\ \E p \in DOMAIN tree : Len(p) = 3 /\ tree[p] = "FRAME"
  /\ IsError(response) /\ response.status = 400

\* C16: when the export step is over and no capped frame has a resolved
\* image URL, the request ends with an error payload that is not the 'No
\* frames found' error, never with a success payload with frames = [] and
\* exportedFrames = 0.  (Violated by the deployed handler and by the
\* single-shot and batched variants, which build the success payload
\* whatever frames.length is; only the sequential variant and the
\* fetchFrames hook turn the empty list into an error.)
C16_FailedExport ==
  (Responded /\ exportRequests # <<>> /\ resolved = {}) =>
    /\ ~(IsSuccess(response) /\ response.body.frames = <<>> /\ response.body.exportedFrames = 0)
    /\ IsError(response)
    /\ response.body.error # "No frames found in this Figma file."

\* the file-tree call failed: it came back with a status that is not ok,
\* or rejected (no export call has been made, so the latest answer is its)
FileFailed == exportRequests = <<>> /\ lastAnswer \notin {0, 200}

\* C17: a failed file-tree call ends the request at once with an error
\* payload, without frame data and without any export request: 403 gives
\* the access-denied error with status 403, 429 (after the retries of the
\* retry client) the rate-limit error with status 429, any other non-2xx
\* status the generic 'Figma API error' with status 500.  The batched
\* variant, which has no retry client, has no 429 branch: its 429 is a
\* generic error.
C17_FileFailure ==
  FileFailed =>
    /\ Responded /\ IsError(response) /\ ~IsSuccess(response)
    /\ DOMAIN response.body = {"error"}
    /\ allFrames = <<>> /\ framesToExport = <<>> /\ allImages = EmptyImages
    /\ lastAnswer = 403 =>
         /\ response.status = 403
         /\ response.body.error = "Access denied. Make sure your Figma token has access to this file."
    /\ (lastAnswer = 429 /\ Handler(hVariant).retries) =>
         /\ response.status = 429
         /\ response.body.error = Handler(hVariant).rateLimit
         /\ hVariant = "deployed" =>
              response.body.error = "Figma API rate limit reached. Please wait a minute and try again."
    /\ (lastAnswer = 429 /\ ~Handler(hVariant).retries) =>
         /\ response.status = 500
         /\ response.body.error = "Figma API error: 429"
    /\ lastAnswer = 404 =>
         response = [status |-> 500, body |-> [error |-> "Figma API error: 404"]]
    /\ lastAnswer = 500 =>
         response = [status |-> 500, body |-> [error |-> "Figma API error: 500"]]
    /\ lastAnswer = Rejected => response.status = 500

\* the deployed handler was rate limited on the file tree of a file that
\* has frames
C17_Witness ==
  /\ FileFailed /\ Responded
  /\ hVariant = "deployed"
  /\ lastAnswer = 429 /\ response.status = 429
  /\ Cardinality(TopLevelFrames) > 0

BatchIds(size, b) ==
  [k \in 1..(Min((b + 1) * size, Len(framesToExport)) - b * size) |-> framesToExport[b * size + k]]

\* an export call failed with a status that is not 429
FailedNot429(status) == status \notin {0, 200, 429, Rejected}

\* C19, one step of a handler: the single-shot handlers first issue one
\* call that names all capped ids; they go on to the batches exactly if that
\* call failed with a status other than 429 (an ok call, a 429 and a
\* rejection end the request); a batch that failed with a status other than
\* 429 leaves the images as they are and the next batch is requested after
\* the delay (in the batched variant at once, for any failure status), and
\* after the last batch the success payload holds the frames resolved by
\* the batches that went well.
C19_Step ==
  LET h == Handler(hVariant)
      size == h.batchSize
      sent == Len(exportRequests)
      more == loopI + size < Len(framesToExport) IN
  /\ (h.strategy = "singleShot" /\ plPc = "exportDelay") =>
       /\ plPc' = "singleShot"
       /\ exportRequests' = << FirstCap(allFrames) >>
  /\ (h.strategy = "singleShot" /\ plPc = "singleShot") =>
       /\ plPc' \in {"batch", "responded"}
       /\ plPc' = "batch" <=> FailedNot429(lastAnswer')
       /\ plPc' = "batch" => exportRequests' = Append(exportRequests, BatchIds(size, 0))
       /\ plPc' = "responded" => exportRequests' = exportRequests
  /\ (h.strategy = "singleShot" /\ plPc = "batch" /\ FailedNot429(lastAnswer')) =>
       /\ allImages' = allImages
       /\ more => plPc' = "batchDelay" /\ response' = NoResponse
       /\ ~more => plPc' = "responded" /\ IsSuccess(response')
  /\ (h.strategy = "singleShot" /\ plPc = "batchDelay") =>
       /\ plPc' = "batch"
       /\ exportRequests' = Append(exportRequests, BatchIds(size, sent - 1))
  /\ (h.strategy = "batched" /\ plPc = "batch" /\ lastAnswer' \notin {200, Rejected}) =>
       /\ allImages' = allImages
       /\ more => /\ plPc' = "batch" /\ response' = NoResponse
                  /\ exportRequests' = Append(exportRequests, BatchIds(size, sent))
       /\ ~more => plPc' = "responded" /\ IsSuccess(response')
  /\ (h.strategy \in {"singleShot", "batched"} /\ plPc' = "responded" /\ IsSuccess(response')) =>
       Range(FrameIds(response'.body.frames)) = resolved' \cap Range(framesToExport)

C19_Fallback == [][C19_Step]_vars

\* the deployed handler fell back to three batches; the second failed and
\* was skipped, the first and the third went well and their eight frames
\* were returned
C19_Witness ==
  /\ Success /\ hVariant = "deployed"
  /\ Len(exportRequests) = 4
  /\ Range(exportRequests[2]) \subseteq resolved
  /\ Range(exportRequests[3]) \cap DOMAIN allImages = {}
  /\ Range(exportRequests[4]) \subseteq resolved
  /\ Len(response.body.frames) = 8

\* C20, one step of the sequential variant: the k-th export request names
\* the k-th capped frame and nothing else, no request goes out while one is
\* awaited, the first export call that is still 429 after the retries ends
\* the request in that step, and from then on no export request is issued.
C20_Step ==
  Handler(hVariant).strategy = "sequential" =>
    /\ \A k \in 1..Len(exportRequests') : exportRequests'[k] = << framesToExport'[k] >>
    /\ Len(exportRequests') \in {Len(exportRequests), Len(exportRequests) + 1}
    /\ plPc = "item" => exportRequests' = exportRequests
    /\ (plPc = "item" /\ lastAnswer' = 429) => plPc' = "responded"
    /\ exportLimited => exportRequests' = exportRequests /\ plPc' = "responded"

C20_SequentialStop == [][C20_Step]_vars

\* the third of eight calls was rate limited: the request is over, five
\* frames were never asked for, and the hook has taken the answer
C20_Witness ==
  /\ hVariant = "sequential" /\ exportLimited /\ Responded
  /\ Len(framesToExport) = 8
  /\ Len(exportRequests) = 3
  /\ Cardinality(resolved) = 2
  /\ ffPc = "done"

\* the sequential variant stopped its export loop on a rate-limited call
SequentialLimited ==
  Handler(hVariant).strategy = "sequential" /\ exportLimited /\ Responded

\* C21 as stated: in the sequential variant a rate-limited export call
\* never fails the request; the request ends with a success payload that
\* holds the frames exported before the rate limit, wherever the rate limit
\* occurs.  (Fails when the rate limit comes before any frame was
\* resolved: frames is empty and the variant answers with its 500 error.)
C21_Original ==
  SequentialLimited =>
    /\ IsSuccess(response)
    /\ Range(FrameIds(response.body.frames)) = resolved

\* C21 amended: in the sequential variant a rate-limited export call ends
\* the request with a success payload holding exactly the frames resolved
\* before it if there is such a frame; if none was resolved the request
\* ends with the 500 'Could not export any frame images' error; it never
\* ends with the 429 rate-limit error.
C21_PartialSuccess ==
  SequentialLimited =>
    /\ response.status # 429
    /\ resolved # {} =>
         /\ IsSuccess(response)
         /\ Range(FrameIds(response.body.frames)) = resolved
         /\ resolved \subseteq NamedIds
         /\ response.body.exportedFrames = Cardinality(resolved)
    /\ resolved = {} =>
         response = [status |-> 500, body |-> [error |-> EmptyExportMessage]]

\* the rate limit came on the fourth of eight frames, after two frames had
\* been resolved and one had failed: the two are returned
C21_Witness ==
  /\ SequentialLimited /\ Success
  /\ Len(framesToExport) = 8
  /\ Len(exportRequests) = 4
  /\ Cardinality(resolved) = 2
  /\ Len(response.body.frames) = 2

\* the handler is suspended on an upstream call
AwaitingUpstream == plPc \in {"fileFetch", "singleShot", "batch", "item"}

\* C22: the steps of the export pipeline are strictly sequential: an export
\* request is issued only after the file-tree call has been answered (ok)
\* and the frames have been extracted and capped, and at most one upstream
\* call of the run is pending at any time: the file-tree call until it is
\* answered, afterwards the latest export call only, none once the handler
\* has returned its response.
C22_Sequential ==
  /\ Cardinality(inFlight) <= 1
  /\ inFlight # {} <=> AwaitingUpstream
  /\ inFlight \subseteq {Len(exportRequests)}
  /\ exportRequests # <<>> =>
       /\ 0 \notin inFlight
       /\ lastAnswer # 0
       /\ allFrames # <<>> /\ framesToExport # <<>>
       /\ Range(exportRequests[Len(exportRequests)]) \subseteq Range(framesToExport)
  /\ inFlight = {1} =>
       /\ allFrames = ExtractAll(tree, 1)
       /\ framesToExport = Capped(allFrames, CAP)
  /\ 0 \in inFlight => allFrames = <<>> /\ framesToExport = <<>>

\* the third batch call of a run is pending: the two before it and the
\* file-tree call have been answered
C22_Witness ==
  /\ plPc = "batch"
  /\ Len(exportRequests) = 3
  /\ inFlight = {3}
  /\ Len(allFrames) > Len(framesToExport)

(* ================== properties of the audit boundary =================== *)
AuditResponded == auPc = "responded"

\* the request is one the frame-extraction handler rejects for a missing
\* field, a malformed URL or a missing credential
FrameRequestRejected ==
  /\ Responded
  /\ response \in
       { ErrorResponse(400, "figmaUrl is required"),
         ErrorResponse(500, "FIGMA_ACCESS_TOKEN is not configured. Please add your Figma token."),
         CaughtResponse("Invalid URL"),
         ErrorResponse(400, "Invalid Figma URL. Please provide a valid Figma file or design link.") }

\* the request is one the audit handler rejects for a missing field or a
\* missing credential
AuditRequestRejected ==
  /\ AuditResponded
  /\ auResponse \in
       { AuditError(400, "Either imageBase64 or imageUrl is required"),
         AuditError(400, "personaId is required"),
         AuditCaught("LOVABLE_API_KEY is not configured") }

\* the frame-extraction handler fails fast
C23_FrameHandler ==
  FrameRequestRejected =>
    inFlight = {} /\ exportRequests = <<>> /\ lastAnswer = 0

\* C23: fail fast: in the frame-extraction handler and in the audit
\* handler a request with a missing required field, a malformed URL or a
\* missing credential is answered with its error before the handler has
\* issued any network request.  (Fails in the audit handler: a request
\* with imageUrl and no LOVABLE_API_KEY is answered with the credential
\* error after the HEAD request for the image.)
C23_FailFast ==
  /\ C23_FrameHandler
  /\ AuditRequestRejected => auRequests = <<>>

\* a structurally valid AuditResult: overallScore a number in [0,100], a
\* summary, a riskLevel of Low/Medium/High, categories an array
IsAuditResult(v) ==
  /\ v.t = "obj"
  /\ Member(v, "overallScore").t = "num"
  /\ Member(v, "overallScore").n >= 0 /\ Member(v, "overallScore").n <= 100
  /\ Member(v, "summary").t = "str"
  /\ Member(v, "riskLevel") \in {Message("Low"), Message("Medium"), Message("High")}
  /\ Member(v, "categories").t = "arr"

\* { error: message }
IsErrorPayload(v) ==
  v.t = "obj" /\ v.keys = << <<"error">> >> /\ v.kids[1].t = "str"

\* the request answered was a POST (an OPTIONS preflight has no body)
AuditAnswered == AuditResponded /\ auResponse # JsonResponse(200, JsNull)

\* the model gateway was called and answered with success
GatewaySucceeded == AuditResponded /\ Ok(auAnswer.status) /\ auAnswer.json

\* C24: every boundary call ends in a well-formed payload: each handler
\* returns either a success payload or an {error: message} payload on every
\* path, and the hooks fetchFrames and runAudit turn every failure into an
\* error state with an empty/null return.  (Fails in the audit handler: a
\* content that parses to JSON other than an audit object is returned as
\* the success payload.)
C24_WellFormed ==
  /\ (Responded /\ response.body # [null |-> TRUE]) =>
       IsSuccess(response) \/ IsError(response)
  /\ ffPc = "done" =>
       /\ ~figmaLoading
       /\ figmaError # "null" => hookFrames = <<>>
  /\ AuditAnswered =>
       IsAuditResult(auResponse.body) \/ IsErrorPayload(auResponse.body)
  /\ raPc = "done" =>
       /\ ~raLoading
       /\ \/ raError # JsNull /\ raReturn = JsNull
          \/ raError = JsNull /\ raReturn = raResult /\ IsAuditResult(raReturn)

\* the model gateway answered with a non-success status
GatewayFailed == AuditResponded /\ auAnswer.status \notin {0, Rejected} /\ ~Ok(auAnswer.status)

\* C25: auditor status mapping: a gateway response with status 429 gives the
\* rate-limit error (429), status 402 the credits-exhausted error (402),
\* every other non-success status the generic 'AI analysis failed' error
\* (500); none of these paths runs the sanitizer or returns an audit.
C25_StatusMapping ==
  GatewayFailed =>
    /\ auAnswer.status = 429 =>
         auResponse = AuditError(429, "Rate limit exceeded. Please try again in a moment.")
    /\ auAnswer.status = 402 =>
         auResponse = AuditError(402, "AI credits exhausted. Please add funds in Settings -> Workspace -> Usage.")
    /\ auAnswer.status \notin {429, 402} =>
         auResponse = AuditError(500, "AI analysis failed")
    /\ ~auSanitized
    /\ IsErrorPayload(auResponse.body) /\ ~IsAuditResult(auResponse.body)

\* a request with an image URL passed its HEAD check and the gateway
\* answered 429
C25_Witness ==
  /\ GatewayFailed
  /\ auAnswer.status = 429
  /\ auResponse.status = 429
  /\ auRequests = <<"HEAD image", "POST gateway">>

\* no stage of the sanitizer recovers JSON from the content
Unrecoverable(text) == tryParseJSON(text).stage = 0

\* C26: fallback totality: tryParseJSON returns null on a text from which
\* no stage recovers JSON (it never throws), and the audit handler then
\* answers 200 with the fallback AuditResult (overallScore 0, a summary,
\* riskLevel High, categories = []), which is structurally valid, instead
\* of an error.
C26_Fallback ==
  (GatewaySucceeded /\ Unrecoverable(auAnswer.content)) =>
    /\ auSanitized
    /\ Returned(tryParseJSON(auAnswer.content)) = JsNull
    /\ auResponse = JsonResponse(200, FallbackResult)
    /\ Member(auResponse.body, "overallScore") = MkNum(0)
    /\ Member(auResponse.body, "summary").t = "str"
    /\ Member(auResponse.body, "riskLevel") = Message("High")
    /\ Member(auResponse.body, "categories") = MkArr(<<>>)
    /\ IsAuditResult(auResponse.body)
    /\ ~IsErrorPayload(auResponse.body)

\* the content was an object that lacks its closing brace, after prose
C26_Witness ==
  /\ GatewaySucceeded
  /\ auAnswer.content = <<"a", SP, "{">> \o Lit("a") \o <<":", "5">>
  /\ auResponse.body = FallbackResult

\* C27: whenever the model gateway answers with success, the response body
\* of the audit handler is a structurally valid AuditResult, whatever text
\* the model returned, including valid JSON that is not an audit object.
\* (Fails: such JSON is returned as it is.)
C27_AlwaysValid ==
  GatewaySucceeded => IsAuditResult(auResponse.body)

(* ======================= properties of the sanitizer =================== *)
Sanitized == sanPc \in {"parsed", "reparsed"}

\* the three candidates of tryParseJSON on a text, each parsed on its own
DirectParse(text) == JSONParse(Clean(text))

HasBraces(text) ==
  /\ IndexOf(Clean(text), "{") # 0
  /\ LastIndexOf(Clean(text), "}") > IndexOf(Clean(text), "{")

SubstringParse(text) ==
  IF HasBraces(text)
  THEN JSONParse(SubSeq(Clean(text), IndexOf(Clean(text), "{"), LastIndexOf(Clean(text), "}")))
  ELSE SyntaxError

CommaParse(text) == JSONParse(StripTrailingCommas(Clean(text)))

\* the text is an object in code fences followed by prose, and no string of
\* the object holds a fence marker
FencedWithProse(text, core) ==
  /\ \E p \in {<<FENCE, "json", NL>>, <<FENCE, NL>>} :
       text = p \o core \o <<NL, FENCE, NL, "a">>
  /\ JSONParse(core).ok /\ JSONParse(core).val.t = "obj"
  /\ FENCE \notin Range(core)

CommaObjectWrapped(text) ==
  \E p \in {<<>>, <<FENCE, "json", NL>>, <<FENCE, NL>>, <<"a", SP>>,
            <<"a", NL, FENCE, "json", NL>>} :
    \E x \in {<<>>, <<NL, FENCE>>, <<SP, "a">>, <<NL, FENCE, NL, "a">>} :
      text = p \o CommaObjectText(<<"5">>) \o x

\* C29: trailing-comma recovery: an object whose only defect is a comma
\* before a closing brace or bracket is recovered by the comma-stripping
\* stage, also when it is wrapped in code fences or preceded/followed by
\* prose.  (Fails with prose: the third stage parses the whole cleaned
\* text, not the substring between the braces.)
C29_TrailingComma ==
  (Sanitized /\ CommaObjectWrapped(rawText)) =>
    /\ sanResult.stage = 3
    /\ sanResult.value = MkObj(<< <<"a">> >>, << MkNum(5) >>)

\* the part of C29 that holds: the object as it is or in code fences only
C29_FencedOnly ==
  (Sanitized /\ \E p \in {<<>>, <<FENCE, "json", NL>>, <<FENCE, NL>>} :
                 \E x \in {<<>>, <<NL, FENCE>>} :
                   rawText = p \o CommaObjectText(<<"5">>) \o x) =>
    /\ sanResult.stage = 3
    /\ sanResult.value = MkObj(<< <<"a">> >>, << MkNum(5) >>)

\* tryParseJSON returned an object, and the object was serialised and
\* passed through tryParseJSON again
Reparsed == sanPc = "reparsed" /\ sanResult.value.t = "obj"

\* C30: idempotence of sanitization: for every text on which tryParseJSON
\* returns an object, serialising that object and passing it through
\* tryParseJSON again returns an equal object, including when string fields
\* of the object contain code-fence markers, braces or commas before
\* brackets.  (Fails for a string field that holds a code-fence marker:
\* the marker is stripped from the serialised text.)
C30_Idempotent ==
  Reparsed =>
    /\ sanResult2.stage # 0
    /\ sanResult2.value = sanResult.value

\* the part of C30 that holds: objects whose serialisation holds no
\* code-fence marker
C30_WithoutFence ==
  (Reparsed /\ FENCE \notin Range(serialized)) =>
    /\ sanResult2.stage = 1
    /\ sanResult2.value = sanResult.value

(* ================= further properties of the dispatcher ================ *)
\* index j was claimed by the worker that had claimed index i before
ClaimedAfter(r, i, j) ==
  \E k, l \in 1..Len(runs[r].claimLog) :
    /\ k < l
    /\ runs[r].claimLog[k].worker = runs[r].claimLog[l].worker
    /\ runs[r].claimLog[k].index = i
    /\ runs[r].claimLog[l].index = j

\* C31: callbacks fire in completion order: onScreenComplete(i, ...) is
\* invoked when audit i settles (in the same step, whatever the state of
\* the audits of lower indices), hence before the worker that ran it claims
\* another index; it is never held back to restore input order.
C31_CompletionOrder ==
  \A r \in Started : \A i \in Indices(r) :
    /\ Settled(r, i) <=> CallCount(r, i) >= 1
    /\ \A j \in Indices(r) : ClaimedAfter(r, i, j) => CallCount(r, i) >= 1
    /\ \A k \in 1..CallCount(r, i) : runs[r].calls[i][k].index = i

\* the callback of index 2 has fired while the audits of indices 0 and 1
\* are still in flight
C31_Witness ==
  \E r \in Started :
    /\ runs[r].n >= 3
    /\ CallCount(r, 2) = 1
    /\ CallCount(r, 0) = 0 /\ runs[r].task[0] = "pending"
    /\ CallCount(r, 1) = 0 /\ runs[r].task[1] = "pending"

\* C34: indices are claimed in strictly increasing order from 0 (the k-th
\* claim of a run is index k - 1, so audit i is started before audit j
\* whenever i < j); the first min(C, N) audits are started while no audit
\* has settled; and no worker starts a task once the shared counter has
\* reached N (the counter never passes N and every claimed index is < N).
C34_ClaimOrder ==
  \A r \in Started :
    LET log == runs[r].claimLog
        first == IF concurrency <= runs[r].n THEN concurrency ELSE runs[r].n
    IN /\ Len(log) = runs[r].nextIndex
       /\ \A k \in 1..Len(log) : log[k].index = k - 1
       /\ Len(log) >= first
       /\ (\E i \in Indices(r) : Settled(r, i)) => Len(log) >= first
       /\ runs[r].nextIndex <= runs[r].n
       /\ \A k \in 1..Len(log) : log[k].index < runs[r].n
       /\ \A w \in 1..Len(runs[r].workers) : runs[r].workers[w].pc # "rejected"
       /\ \A i \in Indices(r) : runs[r].task[i] # "unstarted" <=> i < runs[r].nextIndex

\* the counter has reached N with more workers than remaining work: a
\* worker has left its loop at the guard while another still awaits
C34_Witness ==
  \E r \in Started :
    /\ runs[r].n > concurrency
    /\ runs[r].nextIndex = runs[r].n
    /\ \E w \in 1..Len(runs[r].workers) : runs[r].workers[w].pc = "done"
    /\ \E w \in 1..Len(runs[r].workers) : runs[r].workers[w].pc = "await"

(* =================== properties of the results page ==================== *)
\* C35: on the results page completedScreens never exceeds totalScreens
\* (figmaFrames.length, the frame count of the current run), also when the
\* user pressed New Audit during a run and started another one.
C35_Progress ==
  (step = "results" /\ isMultiScreen) => completedScreens <= Len(figmaFrames)

\* C36: a slot of the results array only ever holds the loading value or
\* the outcome of the current run's frame of that index: no callback of an
\* abandoned run writes into the array after a restart (it stays empty
\* until the next run) or into the slots of a later run.
C36_OwnFrame ==
  /\ step # "results" => screenResults = <<>>
  /\ (step = "results" /\ isMultiScreen) =>
       /\ Len(screenResults) = Len(figmaFrames)
       /\ \A k \in 1..Len(screenResults) : screenResults[k].screenName = figmaFrames[k]

(* ================== properties of a throwing callback ================== *)
\* C38: onScreenComplete is invoked at most once per index even when an
\* invocation of the callback itself throws: a throw from the callback on
\* the success path does not cause a second invocation for the same index
\* with an error result.
C38_AtMostOnce ==
  \A r \in Started : \A i \in Indices(r) : CallCount(r, i) <= 1

(* ===================== properties of the run's end ===================== *)
\* runMultiScreenAudit has resolved and the hook is no longer loading
RunResolved(r) == runs[r].status = "resolved" /\ ~isLoading

\* onScreenComplete has fired for every frame of run r
AllReported(r) == \A i \in Indices(r) : CallCount(r, i) >= 1

\* C39: runMultiScreenAudit resolves, and isLoading returns to false, only
\* after onScreenComplete has fired for every frame; provided every audit
\* request settles this eventually happens; for an empty frame list it
\* happens without any callback.
C39_ResolvesAfterAll ==
  /\ [](\A r \in Started :
          /\ runs[r].status = "resolved" => AllReported(r)
          /\ ~isLoading => (runs[r].status = "resolved" /\ AllReported(r))
          /\ runs[r].status = "running" => isLoading
          /\ runs[r].n = 0 => TotalCalls(r) = 0)
  /\ (numRuns = 1) ~> RunResolved(1)

\* a run of three frames or more, one of them failed, has resolved with
\* every frame reported
C39_Witness ==
  /\ numRuns = 1
  /\ runs[1].n >= 3
  /\ RunResolved(1)
  /\ AllReported(1)
  /\ \E i \in Indices(1) : runs[1].outcome[i] = "failed"

(* ================= further properties of the frame handler ============= *)
\* C32: every figmaUrl that is not a well-formed Figma file/design URL (no
\* match of the file|design pattern, or a match in a string that is not a
\* parseable absolute URL) is rejected with the 400 "Invalid Figma URL"
\* validation error. (The request carries a figmaUrl and the token is
\* configured: those two checks come first.)
C32_InvalidUrl ==
  ( /\ ffPc = "invoking" /\ plPc = "responded"
    /\ ffUrl # <<>>
    /\ parseFigmaUrl(ffUrl) # "KEY"
    /\ response # ErrorResponse(500, "FIGMA_ACCESS_TOKEN is not configured. Please add your Figma token.") )
  => response = ErrorResponse(400, "Invalid Figma URL. Please provide a valid Figma file or design link.")

(* ================ further properties of fetchWithRetry ================= *)
AllAnswers429 == \A k \in 1..Len(fwResponses) : fwResponses[k] = 429

\* C33: in every variant of fetchWithRetry one call issues at most
\* maxRetries + 1 requests, and exactly maxRetries + 1 when every response
\* is 429 (the call has then returned the last 429); in the exponential
\* variants the fetch after the loop is never reached.
C33_RequestBound ==
  /\ Len(fwRequests) <= fwMaxRetries + 1
  /\ Len(fwResponses) <= Len(fwRequests)
  /\ (fwPc = "returned" /\ AllAnswers429) =>
       /\ Len(fwRequests) = fwMaxRetries + 1
       /\ Len(fwResponses) = fwMaxRetries + 1
       /\ fwResult = 429
  /\ (fwPc \in {"fetch", "delay", "postLoopFetch"} /\ AllAnswers429) =>
       Len(fwRequests) <= fwMaxRetries + 1
  /\ fwVariant \in Variants => fwPc # "postLoopFetch"
  /\ (fwVariant = "retryAfter" /\ fwPc = "postLoopFetch") =>
       Len(fwRequests) = fwMaxRetries + 1

\* the Retry-After variant with retries = 3: three 429 inside the loop and
\* a fourth from the fetch after the loop
C33_Witness ==
  /\ fwVariant = "retryAfter" /\ fwMaxRetries = 3
  /\ fwResponses = <<429, 429, 429, 429>>
  /\ Len(fwRequests) = 4 /\ Len(fwWaits) = 3
  /\ fwPc = "returned" /\ fwResult = 429

\* ceil(n / d)
CeilDiv(n, d) == (n + d - 1) \div d

\* the batch requests of the fallback issued so far (the first export
\* request is the single-shot one)
BatchRequests == Tail(exportRequests)

\* the number of batch requests that name the capped frame id
TimesNamed(id) ==
  Cardinality({b \in 1..Len(BatchRequests) : id \in Range(BatchRequests[b])})

\* the deployed handler is in, or went through, its batched fallback
InFallback == hVariant = "deployed" /\ Len(exportRequests) >= 2

\* the batches sent so far are the leading groups of the partition
C37_Groups ==
  InFallback =>
    LET n == Len(framesToExport)
        size == Deployed.batchSize IN
    /\ Len(BatchRequests) <= CeilDiv(n, size)
    /\ \A b \in 1..Len(BatchRequests) :
         /\ BatchRequests[b] = BatchIds(size, b - 1)
         /\ Len(BatchRequests[b]) >= 1 /\ Len(BatchRequests[b]) <= size
    /\ \A k \in 1..n : TimesNamed(framesToExport[k]) <= 1
    /\ \A k \in 1..n : TimesNamed(framesToExport[k]) = 1 <=> k <= size * Len(BatchRequests)

C37_Complete ==
  (InFallback /\ plPc = "responded" /\ lastAnswer \notin {429, Rejected}) =>
    /\ Len(BatchRequests) = CeilDiv(Len(framesToExport), Deployed.batchSize)
    /\ \A k \in 1..Len(framesToExport) : TimesNamed(framesToExport[k]) = 1

\* C37, one step of the deployed handler: the batches of the fallback
\* partition the capped frame list into contiguous groups of at most
\* BATCH_SIZE (4) taken in order; unless a batch call that is still 429
\* after its retries, or a batch call whose fetch rejects, ends the request,
\* ceil(n / 4) batches are attempted and every capped frame id is named in
\* exactly one batch request; the first batch is requested in the step that
\* handles the single-shot answer, every later one after the inter-batch
\* delay.
C37_Step ==
  /\ <<hVariant, framesToExport, exportRequests>>' # <<hVariant, framesToExport, exportRequests>>
       => C37_Groups'
  /\ <<hVariant, framesToExport, exportRequests, plPc, lastAnswer>>'
         # <<hVariant, framesToExport, exportRequests, plPc, lastAnswer>>
       => C37_Complete'
  /\ (InFallback' /\ exportRequests' # exportRequests) =>
       /\ Len(exportRequests') = 2 => plPc = "singleShot"
       /\ Len(exportRequests') > 2 => plPc = "batchDelay"
  /\ (hVariant = "deployed" /\ plPc = "batch" /\ plPc' = "batch") => FALSE

PerCall == DefaultMaxRetries + 1

\* the export calls the deployed handler may make for T frames: the
\* single-shot call and the batches of the capped list
ExportCalls(T) == 1 + CeilDiv(Min(T, Deployed.cap), Deployed.batchSize)

\* C40: every extraction request terminates with a response after a
\* bounded number of upstream requests, provided each request returns: at
\* most maxRetries + 1 file-tree requests and at most (maxRetries + 1) *
\* (1 + ceil(min(T, 12) / 4)) export requests, at most 20 requests in total
\* with maxRetries = 3, however large the file is.
C40_BoundedRequests ==
  /\ [](/\ upstream.files <= PerCall
        /\ upstream.images <= PerCall * ExportCalls(Len(allFrames))
        /\ upstream.files + upstream.images <= 20
        /\ upstream.calls <= 1 + ExportCalls(Len(allFrames)))
  /\ (ffPc = "invoking") ~> (plPc = "responded")

\* a file of more frames than the cap: every call was rate-limited three
\* times, the single-shot call and two batches then failed and the last
\* batch went well, 4 + 16 requests in all
C40_Witness ==
  /\ plPc = "responded" /\ IsSuccess(response)
  /\ Len(allFrames) > Deployed.cap
  /\ upstream.files = 4
  /\ upstream.images = 16
  /\ upstream.calls = 5

====
